---- MODULE Spec2Model ----
(***************************************************************************)
(* A model of the otters-rt realtime audio effects engine: construction of *)
(* the board (effects, buffer namespace, connection table) from a parsed   *)
(* configuration, and the per-block scheduler with its external bindings   *)
(* and the asynchronous parameter channel.                                 *)
(*                                                                         *)
(* Conventions.                                                            *)
(*  - Rust vectors are TLA+ sequences; a Rust index i is position i + 1.   *)
(*  - A String that the code only compares is a TLA+ string; a buffer name, *)
(*    which the code slices and parses, is a sequence of characters.       *)
(*  - A usize is kept as its signed 64-bit reading: a negative number x    *)
(*    stands for the usize 2^64 + x (the value a wrapping subtraction      *)
(*    leaves); usize_lt compares two such readings as unsigned numbers.    *)
(*  - An f32 sample is an integer; the modelled effects only copy samples. *)
(***************************************************************************)
EXTENDS Integers, Sequences, FiniteSets, TLC

VARIABLES
    \* ---- engine construction (Otters::create) ----
    audio_config,       \* the AudioConfig handed to create
    factory_exts,       \* the factory extensions handed to create, in
                        \* composition order
    parsed_config,      \* the BoardConfig (configured_state.parsed_config)
    overflow_checks,    \* build profile: TRUE panics on usize overflow, FALSE wraps
    create_result,      \* what create returned (or that it panicked)
    \* ---- the running engine (struct Otters, struct BoardContext) ----
    effects,            \* Otters.effects
    enable_info,        \* Otters.enable_info
    mappings,           \* global_param_manager.mappings
    connections,        \* context.connections
    buffers,            \* context.buffers
    external_ins,       \* context.external_ins
    external_outs,      \* context.external_outs
    async_param_update_queue, \* Otters.async_param_update_queue: None, or
                        \* Some(the updates enqueued and not yet received)
    \* ---- the host and the threads ----
    host_in,            \* host memory behind the source pointer
    host_out,           \* host memory behind the sink pointer
    in_frolic,          \* the audio thread is inside frolic
    conn_i,             \* frolic's loop index i
    num_samples,        \* frolic's argument
    exec_log,           \* connections executed by the current / last frolic
    frolic_returned,    \* some frolic call has returned
    panicked,           \* the process panicked (index out of bounds, ...)
    \* ---- the stream the host has run through the engine ----
    in_hist,            \* the input samples of the calls that returned
    out_hist,           \* the output samples of the calls that returned
    \* ---- the control thread ----
    session_info,       \* OttersParamModifierContext.session_info.infos of the
                        \* last setup_async_param_updater: None before one
    \* ---- one effect unit driven directly through the AudioEffect trait ----
    solo,               \* the unit (a PhaseVocoder, a Biquad, ...): None if none
    solo_trace          \* the calls the unit has made to what it hosts

buildVars == <<audio_config, factory_exts, parsed_config, overflow_checks, create_result>>
engineVars == <<effects, enable_info, mappings, connections, buffers,
                external_ins, external_outs, async_param_update_queue>>
threadVars == <<host_in, host_out, in_frolic, conn_i, num_samples, exec_log,
                frolic_returned, panicked>>
streamVars == <<in_hist, out_hist>>
soloVars == <<solo, solo_trace>>
vars == <<buildVars, engineVars, threadVars, streamVars, session_info, soloVars>>

----------------------------------------------------------------------------
(* Bounds of the model *)

\* longest declared buffer list
MaxBufs == 3
\* most connections in a drawn configuration
MaxConns == 2
\* most buffer names in all reads and writes of a drawn connection list
MaxTargets == 2
\* most effect declarations in a drawn configuration
MaxEffects == 2
\* max_block_size of the audio configuration
MaxBlockSize == 2
\* updates the control thread enqueues
MaxSends == 2
\* global parameter indices the control thread addresses
MaxParams == 1

----------------------------------------------------------------------------
(* Program constants: context.rs *)

MAX_ALLOWABLE_BUF_DECLS == 1024
MAX_ALLOWABLE_INPUTS == 10
MAX_ALLOWABLE_OUTPUTS == 10
MAX_EXTERNAL_INS == 6
MAX_EXTERNAL_OUTS == 6
FIRST_INPUT_IDX == 1024
FIRST_OUTPUT_IDX == 2048

(* Program constants: consts.rs, effects/delay/basic_delay.rs *)
MAX_DELAY_MS == 2000
PARAM_DELAY_TIME_MS == 0
PARAM_FEEDBACK_PCT == 1
PARAM_WET_DRY_PCT == 2

----------------------------------------------------------------------------
(* Generic helpers *)

Min(a, b) == IF a < b THEN a ELSE b

\* unsigned comparison of two usize values held as signed 64-bit readings
usize_lt(a, b) ==
    IF a < 0 THEN (b < 0 /\ a < b)
    ELSE (b < 0 \/ a < b)

\* Option<T>
None == [some |-> FALSE]
Some(v) == [some |-> TRUE, val |-> v]

----------------------------------------------------------------------------
(* Buffer names as character sequences, and str::parse::<usize> *)

SOURCE_PREFIX == <<"@", "S", "O", "U", "R", "C", "E", "_">>
SINK_PREFIX == <<"@", "S", "I", "N", "K", "_">>

starts_with(s, prefix) ==
    /\ Len(s) >= Len(prefix)
    /\ SubSeq(s, 1, Len(prefix)) = prefix

Digits == <<"0", "1", "2", "3", "4", "5", "6", "7", "8", "9">>

is_digit(c) == \E d \in DOMAIN Digits : Digits[d] = c

digit_value(c) == (CHOOSE d \in DOMAIN Digits : Digits[d] = c) - 1

RECURSIVE digits_value(_, _)
digits_value(s, acc) ==
    IF s = <<>> THEN acc
    ELSE digits_value(Tail(s), acc * 10 + digit_value(Head(s)))

\* usize::from_str: an optional leading "+", then one or more decimal digits.
\* (The names drawn here are short, so the overflow error cannot occur.)
parse_usize(s) ==
    LET digits == IF s # <<>> /\ Head(s) = "+" THEN Tail(s) ELSE s
    IN  IF digits = <<>> \/ (\E i \in DOMAIN digits : ~is_digit(digits[i]))
        THEN None
        ELSE Some(digits_value(digits, 0))

----------------------------------------------------------------------------
(* context.rs: the buffer pass *)

create_construction_intermediate ==
    [buf_name_to_idx |-> <<>>, num_external_buffers |-> 0]

\* HashMap::insert
map_insert(m, k, v) ==
    [x \in (DOMAIN m) \cup {k} |-> IF x = k THEN v ELSE m[x]]

\* HashMap::len
map_len(m) == Cardinality(DOMAIN m)

\* an index generator that numbers internal names by the size of the map,
\* external names included
generate_idx_for_buf_name_by_map_len(self, requested_buf_name, checks) ==
    LET is_source == starts_with(requested_buf_name, SOURCE_PREFIX) /\ Len(requested_buf_name) > 8
        is_sink == starts_with(requested_buf_name, SINK_PREFIX) /\ Len(requested_buf_name) > 6
        parse_result == parse_usize(SubSeq(requested_buf_name, IF is_source THEN 9 ELSE 7,
                                           Len(requested_buf_name)))
    IN  IF is_source \/ is_sink
        THEN IF parse_result.some /\ parse_result.val < MAX_ALLOWABLE_INPUTS
             THEN [panic |-> FALSE,
                   idx |-> Some(parse_result.val +
                                (IF is_source THEN FIRST_INPUT_IDX ELSE FIRST_OUTPUT_IDX)),
                   num_external_buffers |-> self.num_external_buffers + 1]
             ELSE [panic |-> FALSE, idx |-> None,
                   num_external_buffers |-> self.num_external_buffers]
        ELSE [panic |-> FALSE,
              idx |-> Some(map_len(self.buf_name_to_idx)),
              num_external_buffers |-> self.num_external_buffers]

\* The index for a declared name. Returns [panic, idx: Option<usize>,
\* num_external_buffers']. The subtraction of the last branch overflows when
\* more external names were counted than the map holds: with overflow checks
\* it panics, without it wraps.
generate_idx_for_buf_name(self, requested_buf_name, checks) ==
    IF starts_with(requested_buf_name, SOURCE_PREFIX) /\ Len(requested_buf_name) > 8
    THEN LET source_idx_str == SubSeq(requested_buf_name, 9, Len(requested_buf_name))
             parse_result == parse_usize(source_idx_str)
         IN  IF parse_result.some
             THEN IF parse_result.val >= MAX_ALLOWABLE_INPUTS
                  THEN [panic |-> FALSE, idx |-> None,
                        num_external_buffers |-> self.num_external_buffers]
                  ELSE [panic |-> FALSE,
                        idx |-> Some(parse_result.val + FIRST_INPUT_IDX),
                        num_external_buffers |-> self.num_external_buffers + 1]
             ELSE [panic |-> FALSE, idx |-> None,
                   num_external_buffers |-> self.num_external_buffers]
    ELSE IF starts_with(requested_buf_name, SINK_PREFIX) /\ Len(requested_buf_name) > 6
    THEN LET sink_idx_str == SubSeq(requested_buf_name, 7, Len(requested_buf_name))
             parse_result == parse_usize(sink_idx_str)
         IN  IF parse_result.some
             THEN IF parse_result.val >= MAX_ALLOWABLE_OUTPUTS
                  THEN [panic |-> FALSE, idx |-> None,
                        num_external_buffers |-> self.num_external_buffers]
                  ELSE [panic |-> FALSE,
                        idx |-> Some(parse_result.val + FIRST_OUTPUT_IDX),
                        num_external_buffers |-> self.num_external_buffers + 1]
             ELSE [panic |-> FALSE, idx |-> None,
                   num_external_buffers |-> self.num_external_buffers]
    ELSE LET diff == map_len(self.buf_name_to_idx) - self.num_external_buffers
         IN  [panic |-> (diff < 0 /\ checks),
              idx |-> Some(diff),
              num_external_buffers |-> self.num_external_buffers]

\* SimpleFloatBuffer::with_max_capacity
with_max_capacity(capacity) ==
    [data |-> [i \in 1..capacity |-> 0],
     capacity |-> capacity,
     limit |-> capacity,
     write_idx |-> 0]

\* SimpleFloatBuffer::read
simple_float_buffer_read(self, idx) ==
    self.data[((self.write_idx + idx) % self.limit) + 1]

\* SimpleFloatBuffer::write
simple_float_buffer_write(self, value) ==
    [self EXCEPT !.data[self.write_idx + 1] = value,
                 !.write_idx = (self.write_idx + 1) % self.limit]

redeclaration_error(buf_name) ==
    [msg |-> "Redeclaration of buffer", name |-> buf_name]

generate_idx_error(buf_name) ==
    [msg |-> "Failed to generate idx for name", name |-> buf_name]

\* The body of the loop of create_mem_buffers, for one name. st is
\* [helper, result, errors, panic].
mem_buffers_step(st, buf_name, max_block_size, checks) ==
    LET declare(errors1, next_idx) ==
            IF next_idx.panic
            THEN [st EXCEPT !.errors = errors1, !.panic = TRUE]
            ELSE IF ~next_idx.idx.some
            THEN [st EXCEPT !.errors = Append(errors1, generate_idx_error(buf_name))]
            ELSE [helper |->
                    [buf_name_to_idx |->
                        map_insert(st.helper.buf_name_to_idx, buf_name,
                                   next_idx.idx.val),
                     num_external_buffers |-> next_idx.num_external_buffers],
                  result |->
                    IF usize_lt(next_idx.idx.val, MAX_ALLOWABLE_BUF_DECLS)
                    THEN Append(st.result, with_max_capacity(max_block_size))
                    ELSE st.result,
                  errors |-> errors1,
                  panic |-> FALSE]
    IN  declare(IF buf_name \in DOMAIN st.helper.buf_name_to_idx
                THEN Append(st.errors, redeclaration_error(buf_name))
                ELSE st.errors,
                generate_idx_for_buf_name(st.helper, buf_name, checks))

RECURSIVE mem_buffers_loop(_, _, _, _)
mem_buffers_loop(st, buf_names, max_block_size, checks) ==
    IF buf_names = <<>> \/ st.panic THEN st
    ELSE mem_buffers_loop(
            mem_buffers_step(st, Head(buf_names), max_block_size, checks),
            Tail(buf_names), max_block_size, checks)

\* Returns [panic, ok, errors, result, helper].
create_mem_buffers(construction_helper, buf_names, max_block_size, checks) ==
    IF Len(buf_names) > MAX_ALLOWABLE_BUF_DECLS
    THEN [panic |-> FALSE, ok |-> FALSE,
          errors |-> <<[msg |-> "Too many buffers", name |-> <<>>]>>,
          result |-> <<>>, helper |-> construction_helper]
    ELSE LET outcome(st) ==
                 [panic |-> st.panic,
                  ok |-> ~st.panic /\ Len(st.errors) = 0,
                  errors |-> st.errors,
                  result |-> st.result,
                  helper |-> st.helper]
         IN  outcome(mem_buffers_loop(
                       [helper |-> construction_helper, result |-> <<>>,
                        errors |-> <<>>, panic |-> FALSE],
                       buf_names, max_block_size, checks))

----------------------------------------------------------------------------
(* utils/mathutils.rs, utils/delay_buf.rs: DelayBuffer. An f32 is kept in *)
(* thousandths: 1.0 is 1000.                                              *)

\* 1.0f32
ONE == 1000

\* mathutils::nextafter(1.0, 0.0): the largest value below 1.0
NEXT_BELOW_ONE == 999

\* `x as usize` of a non-negative f32: truncation
as_usize(x) == x \div ONE

\* mathutils::vmodf: (v.trunc() as i32, v.fract()), for v >= 0
vmodf(v) == [ipart |-> v \div ONE, fpart |-> v % ONE]

\* mathutils::lerp: x + t * (y - x)
lerp(x, y, t) == x + (t * (y - x)) \div ONE

\* num::clamp
num_clamp(x, lo, hi) == IF x < lo THEN lo ELSE IF x > hi THEN hi ELSE x

\* DelayBuffer::with_sample_rate_and_max_delay, with consts::MAX_DELAY_MS
delay_buffer_with_sample_rate(sample_rate) ==
    [buf |-> with_max_capacity((sample_rate * MAX_DELAY_MS) \div 1000),
     sample_rate |-> sample_rate,
     delay_time_ms |-> 0,
     whole_delay_time_samples |-> 0,
     fract_delay_time_samples |-> 0]

\* a delay line that never saturates
clamp_delay_sample_count_off(self) == self

\* DelayBuffer::clamp_delay_sample_count
clamp_delay_sample_count(self) ==
    IF self.whole_delay_time_samples = self.buf.capacity - 1
    THEN [self EXCEPT !.whole_delay_time_samples = self.buf.capacity - 2,
                      !.fract_delay_time_samples = NEXT_BELOW_ONE]
    ELSE self

\* DelayBuffer::set_delay_time_ms. delay_time_ms is in thousandths of a
\* millisecond, real_delay_time in thousandths of a sample.
set_delay_time_ms(self, delay_time_ms, should_clamp_if_high) ==
    IF delay_time_ms < 0 THEN self
    ELSE LET requested == (delay_time_ms * self.sample_rate) \div 1000
             too_high == as_usize(requested) >= self.buf.capacity
         IN  IF too_high /\ ~should_clamp_if_high THEN self
             ELSE LET real_delay_time ==
                          IF too_high THEN (self.buf.capacity - 1) * ONE ELSE requested
                      parts == vmodf(real_delay_time)
                  IN  clamp_delay_sample_count(
                        [self EXCEPT
                           !.delay_time_ms = delay_time_ms,
                           !.fract_delay_time_samples = parts.fpart,
                           !.whole_delay_time_samples =
                               num_clamp(parts.ipart, 0, self.buf.capacity)])

\* DelayBuffer::read_delayed_sample. Returns [panic, value]: the usize
\* subtractions of the two read offsets overflow below 0.
read_delayed_sample(self) ==
    LET offset_1 == self.buf.limit - self.whole_delay_time_samples - 1
        offset_2 == self.buf.limit - self.whole_delay_time_samples - 2
    IN  IF offset_1 < 0 \/ offset_2 < 0
        THEN [panic |-> TRUE, value |-> 0]
        ELSE [panic |-> FALSE,
              value |-> lerp(simple_float_buffer_read(self.buf, offset_1),
                             simple_float_buffer_read(self.buf, offset_2),
                             self.fract_delay_time_samples)]

\* DelayBuffer::write_sample
write_sample(self, sample) ==
    [self EXCEPT !.buf = simple_float_buffer_write(self.buf, sample)]

----------------------------------------------------------------------------
(* effects/mod.rs, factory.rs: the effect units this model carries *)

\* loaded_set(): the extensions in composition order, each a FactoryExtension:
\* its factory_fns map a registered name to the constructor it was inserted
\* with, named here by the kind of unit the constructor builds. Carried
\* here: bypass_effects() and delay_effects().
bypass_effects == [name \in {"Bypass/Mono"} |-> "Bypass/Mono"]
delay_effects == [name \in {"Delay/Basic"} |-> "Delay/Basic"]
reverb_effects == <<>>
loaded_set == << bypass_effects, delay_effects >>

\* AudioEffect::advertise_parameters, as the parameter names
advertise_parameters(effect_name) ==
    IF effect_name = "Delay/Basic"
    THEN <<"delay_time_ms", "feedback_pct", "wet_dry_pct">>
    ELSE <<>>

\* The defaults of BASIC_PARAMS, in thousandths
default_params(effect_name) ==
    IF effect_name = "Delay/Basic"
    THEN <<[tag |-> "F", v |-> 1000000], [tag |-> "F", v |-> 0], [tag |-> "F", v |-> 500]>>
    ELSE <<>>

\* a unit without a delay line
no_delay_buf == [buf |-> with_max_capacity(0), sample_rate |-> 0, delay_time_ms |-> 0,
                 whole_delay_time_samples |-> 0, fract_delay_time_samples |-> 0]

\* The constructors registered in effects/mod.rs: MonoBypass::new,
\* MonoDelayBasic::new(ac)
new_unit(effect_name, ac) ==
    [effect_name |-> effect_name,
     params |-> default_params(effect_name),
     delay_buf |-> IF effect_name = "Delay/Basic"
                   THEN delay_buffer_with_sample_rate(ac.sample_rate)
                   ELSE no_delay_buf]

\* EffectFactory::assemble_factory
assemble_factory(ac, extensions) == [audio_config |-> ac, factory_exts |-> extensions]

\* EffectFactory::change_audio_config
change_audio_config(factory, new_audio_config) ==
    [factory EXCEPT !.audio_config = new_audio_config]

\* the loop of create_effect_unit a mutation runs backwards: the last
\* extension that registers name
find_factory_ext_last(extensions, name) ==
    IF \E e \in DOMAIN extensions : name \in DOMAIN extensions[e]
    THEN Some(CHOOSE e \in DOMAIN extensions :
                /\ name \in DOMAIN extensions[e]
                /\ \A d \in DOMAIN extensions :
                      name \in DOMAIN extensions[d] => d <= e)
    ELSE None

\* for factory_ext in &self.factory_exts { if contains_key(name) { return } }:
\* the position of the extension the loop returns from, None if it runs out
find_factory_ext(extensions, name) ==
    IF \E e \in DOMAIN extensions : name \in DOMAIN extensions[e]
    THEN Some(CHOOSE e \in DOMAIN extensions :
                /\ name \in DOMAIN extensions[e]
                /\ \A d \in DOMAIN extensions :
                      name \in DOMAIN extensions[d] => e <= d)
    ELSE None

\* EffectFactory::create_effect_unit: the constructor of the first extension
\* that registers name, applied to the factory's audio_config
create_effect_unit(factory, name) ==
    LET construct(found) ==
            IF found.some
            THEN Some(new_unit(factory.factory_exts[found.val][name],
                               factory.audio_config))
            ELSE None
    IN  construct(find_factory_ext(factory.factory_exts, name))

\* BoardEffectConfigParameterValue::as_flt
as_flt(param_value) ==
    IF param_value.tag = "N" THEN param_value.v * ONE ELSE param_value.v

\* AudioEffect::set_effect_parameter: MonoBypass ignores it; MonoDelayBasic
\* stores the value and retunes its delay line on the delay time
set_effect_parameter(unit, param_idx, param_value) ==
    IF unit.effect_name = "Delay/Basic"
    THEN [unit EXCEPT
            !.params[param_idx + 1] = param_value,
            !.delay_buf = IF param_idx = PARAM_DELAY_TIME_MS
                          THEN set_delay_time_ms(@, as_flt(param_value), TRUE)
                          ELSE @]
    ELSE unit

----------------------------------------------------------------------------
(* otters.rs: create_effect_units *)

no_such_effect_error(effect_name) ==
    [msg |-> "No such effect unit", name |-> effect_name]

\* st is [result: LoadedEffects, errors, current_ordinal]
effect_units_step(st, effect_decl, factory) ==
    LET unit == create_effect_unit(factory, effect_decl.effect_name)
    IN  IF unit.some
        THEN [result |-> map_insert(st.result, effect_decl.bind_name,
                            [ordinal |-> st.current_ordinal,
                             unit |-> unit.val,
                             enabled |-> effect_decl.enabled]),
              errors |-> st.errors,
              current_ordinal |-> st.current_ordinal + 1]
        ELSE [st EXCEPT !.errors =
                Append(st.errors, no_such_effect_error(effect_decl.effect_name))]

RECURSIVE effect_units_loop(_, _, _)
effect_units_loop(st, effect_configs, factory) ==
    IF effect_configs = <<>> THEN st
    ELSE effect_units_loop(effect_units_step(st, Head(effect_configs), factory),
                           Tail(effect_configs), factory)

\* Returns [ok, errors, result].
create_effect_units(factory, effect_configs) ==
    LET st == effect_units_loop(
                [result |-> <<>>, errors |-> <<>>, current_ordinal |-> 0],
                effect_configs, factory)
    IN  [ok |-> Len(st.errors) = 0, errors |-> st.errors, result |-> st.result]

----------------------------------------------------------------------------
(* context.rs: the connection pass *)

\* a check that lets a connection name a buffer it already uses
is_valid_buffer_any_use(buf_name_to_idx, used_buffers, requested_buf) ==
    IF requested_buf \notin DOMAIN buf_name_to_idx
    THEN [msg |-> "No such buffer", name |-> requested_buf]
    ELSE [msg |-> "ok", name |-> requested_buf]

\* BufferUsageError
is_valid_buffer(buf_name_to_idx, used_buffers, requested_buf) ==
    IF requested_buf \notin DOMAIN buf_name_to_idx
    THEN [msg |-> "No such buffer", name |-> requested_buf]
    ELSE IF requested_buf \in used_buffers
    THEN [msg |-> "Buffer already used", name |-> requested_buf]
    ELSE [msg |-> "ok", name |-> requested_buf]

\* st is [result_vec, used_buffer_tracker, errors_acc]
RECURSIVE find_buffer_targets(_, _, _)
find_buffer_targets(targets, st, helper) ==
    IF targets = <<>> THEN st
    ELSE LET input_target == Head(targets)
             buffer_usage == is_valid_buffer(helper.buf_name_to_idx,
                                             st.used_buffer_tracker, input_target)
         IN  IF buffer_usage.msg # "ok"
             THEN find_buffer_targets(Tail(targets),
                    [st EXCEPT !.errors_acc = Append(st.errors_acc, buffer_usage)],
                    helper)
             ELSE find_buffer_targets(Tail(targets),
                    [result_vec |-> Append(st.result_vec,
                                           helper.buf_name_to_idx[input_target]),
                     used_buffer_tracker |-> st.used_buffer_tracker \cup {input_target},
                     errors_acc |-> st.errors_acc],
                    helper)

nonexistent_node_error(effect) ==
    [msg |-> "Trying to connect nonexistent node", name |-> effect]

ordinal_error(effect) ==
    [msg |-> "Effect has ordinal > the max allowed ordinal", name |-> effect]

\* The body of the loop of create_effect_connections, for one declaration.
\* st is [errors, used_buffer_tracker, connections].
effect_connections_step(st, connection_info, helper, loaded) ==
    IF connection_info.effect \notin DOMAIN loaded
    THEN [st EXCEPT !.errors =
            Append(st.errors, nonexistent_node_error(connection_info.effect))]
    ELSE LET effect_ordinal == loaded[connection_info.effect].ordinal
         IN  IF effect_ordinal >= map_len(loaded)
             THEN [st EXCEPT !.errors =
                     Append(st.errors, ordinal_error(connection_info.effect))]
             ELSE LET rd == find_buffer_targets(connection_info.reads,
                                [result_vec |-> <<>>,
                                 used_buffer_tracker |-> st.used_buffer_tracker,
                                 errors_acc |-> st.errors],
                                helper)
                      wr == find_buffer_targets(connection_info.writes,
                                [result_vec |-> <<>>,
                                 used_buffer_tracker |-> rd.used_buffer_tracker,
                                 errors_acc |-> rd.errors_acc],
                                helper)
                  IN  [errors |-> wr.errors_acc,
                       used_buffer_tracker |-> {},
                       connections |-> Append(st.connections,
                            [ordinal |-> effect_ordinal,
                             inputs_idxs |-> rd.result_vec,
                             output_idxs |-> wr.result_vec])]

RECURSIVE effect_connections_loop(_, _, _, _)
effect_connections_loop(st, connection_infos, helper, loaded) ==
    IF connection_infos = <<>> THEN st
    ELSE effect_connections_loop(
            effect_connections_step(st, Head(connection_infos), helper, loaded),
            Tail(connection_infos), helper, loaded)

\* Returns [ok, errors, result].
create_effect_connections(construction_helper, connection_infos, loaded) ==
    LET outcome(st) ==
            [ok |-> Len(st.errors) = 0, errors |-> st.errors, result |-> st.connections]
    IN  outcome(effect_connections_loop(
                  [errors |-> <<>>, used_buffer_tracker |-> {}, connections |-> <<>>],
                  connection_infos, construction_helper, loaded))

\* BoardContext::initialize_context. Returns [panic, ok, errors, context].
no_context == [buffers |-> <<>>, connections |-> <<>>,
               external_ins |-> <<>>, external_outs |-> <<>>]

initialize_context(board_config, ac, loaded, checks) ==
    LET with_connections(bufs, conns) ==
            IF ~conns.ok
            THEN [panic |-> FALSE, ok |-> FALSE, errors |-> conns.errors,
                  context |-> no_context]
            ELSE [panic |-> FALSE, ok |-> TRUE, errors |-> <<>>,
                  context |->
                    [buffers |-> bufs.result,
                     connections |-> conns.result,
                     external_ins |-> [k \in 1..MAX_EXTERNAL_INS |-> 0],
                     external_outs |-> [k \in 1..MAX_EXTERNAL_OUTS |-> 0]]]
        with_buffers(bufs) ==
            IF bufs.panic
            THEN [panic |-> TRUE, ok |-> FALSE, errors |-> <<>>, context |-> no_context]
            ELSE IF ~bufs.ok
            THEN [panic |-> FALSE, ok |-> FALSE, errors |-> bufs.errors,
                  context |-> no_context]
            ELSE with_connections(bufs,
                    create_effect_connections(bufs.helper,
                                              board_config.connections, loaded))
    IN  with_buffers(create_mem_buffers(create_construction_intermediate,
                                        board_config.buffers, ac.max_block_size,
                                        checks))

----------------------------------------------------------------------------
(* otters.rs, param.rs: the effect vector and the parameter tables *)

\* intermediate.sort_by(ordinal): the bind names in increasing ordinal
RECURSIVE sort_by_ordinal(_, _)
sort_by_ordinal(loaded, keys) ==
    IF keys = {} THEN <<>>
    ELSE LET first == CHOOSE k \in keys :
                        \A j \in keys : loaded[k].ordinal <= loaded[j].ordinal
         IN  <<first>> \o sort_by_ordinal(loaded, keys \ {first})

\* ParameterMappingManager::new
new_parameter_mapping_manager ==
    [mappings |-> <<>>, bind_name_to_glob_idxs |-> <<>>,
     bind_name_to_effect_type |-> <<>>]

\* The closure of effect_map_to_vec for element i (0-based) of intermediate:
\* new_parameter for every advertised parameter, then
\* set_global_idxs_for_bind_name.
register_effect(pm, bind_name, i, unit) ==
    LET advertised_params == advertise_parameters(unit.effect_name)
        base == Len(pm.mappings)
    IN  [mappings |-> pm.mappings \o
            [p \in 1..Len(advertised_params) |->
                [bind_name |-> bind_name, effect_idx |-> i, param_idx |-> p - 1]],
         bind_name_to_glob_idxs |->
            map_insert(pm.bind_name_to_glob_idxs, bind_name,
                [p \in 1..Len(advertised_params) |->
                    [name |-> advertised_params[p], global_idx |-> base + p - 1]]),
         bind_name_to_effect_type |-> pm.bind_name_to_effect_type]

RECURSIVE register_effects(_, _, _, _)
register_effects(pm, loaded, intermediate, i) ==
    IF i >= Len(intermediate) THEN pm
    ELSE register_effects(
            register_effect(pm, intermediate[i + 1], i, loaded[intermediate[i + 1]].unit),
            loaded, intermediate, i + 1)

\* Returns [effects, enabled, pm].
effect_map_to_vec(loaded) ==
    LET intermediate == sort_by_ordinal(loaded, DOMAIN loaded)
    IN  [effects |-> [i \in 1..Len(intermediate) |-> loaded[intermediate[i]].unit],
         enabled |-> [i \in 1..Len(intermediate) |-> loaded[intermediate[i]].enabled],
         pm |-> register_effects(new_parameter_mapping_manager, loaded, intermediate, 0)]

\* ParameterMappingManager::effect_and_param_idx
effect_and_param_idx(pm_mappings, global_idx) ==
    [effect_idx |-> pm_mappings[global_idx + 1].effect_idx,
     param_idx |-> pm_mappings[global_idx + 1].param_idx]

\* the inner loop of set_initial_config_on_effects
RECURSIVE apply_effect_config(_, _, _, _)
apply_effect_config(config, param_name_to_idx, pm, effs) ==
    IF config = <<>> THEN effs
    ELSE LET effect_param == Head(config)
         IN  IF effect_param.name \notin DOMAIN param_name_to_idx
             THEN apply_effect_config(Tail(config), param_name_to_idx, pm, effs)
             ELSE LET ep == effect_and_param_idx(pm.mappings,
                                                 param_name_to_idx[effect_param.name])
                  IN  apply_effect_config(Tail(config), param_name_to_idx, pm,
                        [effs EXCEPT ![ep.effect_idx + 1] =
                            set_effect_parameter(@, ep.param_idx, effect_param.value)])

RECURSIVE set_initial_config_on_effects(_, _, _)
set_initial_config_on_effects(effect_decls, pm, effs) ==
    IF effect_decls = <<>> THEN effs
    ELSE LET effect_decl == Head(effect_decls)
             params_for_effect == pm.bind_name_to_glob_idxs[effect_decl.bind_name]
             param_name_to_idx ==
                [n \in {params_for_effect[p].name : p \in DOMAIN params_for_effect} |->
                    params_for_effect[
                        CHOOSE p \in DOMAIN params_for_effect :
                           /\ params_for_effect[p].name = n
                           /\ \A q \in DOMAIN params_for_effect :
                                params_for_effect[q].name = n => q <= p].global_idx]
         IN  set_initial_config_on_effects(Tail(effect_decls), pm,
                apply_effect_config(effect_decl.config, param_name_to_idx, pm, effs))

----------------------------------------------------------------------------
(* otters.rs: Otters::create *)

no_engine == [context |-> no_context, effects |-> <<>>, enable_info |-> <<>>,
              pm |-> new_parameter_mapping_manager]

\* Returns [status, errors, engine]; status is "Ok", "UnitConfigError",
\* "ContextError" or "Panic". The config is the deserialized BoardConfig.
create(ac, factory_extensions, config, checks) ==
    LET factory == assemble_factory(ac, factory_extensions)
        with_effects(ctx, vec) ==
            [status |-> "Ok", errors |-> <<>>,
             engine |->
               [context |-> ctx.context,
                effects |-> set_initial_config_on_effects(
                              config.effects, vec.pm, vec.effects),
                enable_info |-> vec.enabled,
                pm |-> vec.pm]]
        with_context(loaded, ctx) ==
            IF ctx.panic
            THEN [status |-> "Panic", errors |-> <<>>, engine |-> no_engine]
            ELSE IF ~ctx.ok
            THEN [status |-> "ContextError", errors |-> ctx.errors,
                  engine |-> no_engine]
            ELSE with_effects(ctx, effect_map_to_vec(loaded.result))
        with_units(loaded) ==
            IF ~loaded.ok
            THEN [status |-> "UnitConfigError", errors |-> loaded.errors,
                  engine |-> no_engine]
            ELSE with_context(loaded,
                    initialize_context(config, ac, loaded.result, checks))
    IN  with_units(create_effect_units(factory, config.effects))

\* Otters::update_audio_config, on the engine [context, effects,
\* enable_info, pm] and the factory and parsed config of its
\* configured_state. Returns [status, errors, engine]; the caller's
\* audio_config and factory take the new value whatever the status.
update_audio_config(engine, factory, config, new_audio_config, checks) ==
    LET with_effects(ctx, vec) ==
            [status |-> "Ok", errors |-> <<>>,
             engine |->
               [context |-> ctx.context,
                effects |-> vec.effects,
                enable_info |-> engine.enable_info,
                pm |-> vec.pm]]
        with_context(loaded, ctx) ==
            IF ctx.panic
            THEN [status |-> "Panic", errors |-> <<>>, engine |-> engine]
            ELSE IF ~ctx.ok
            THEN [status |-> "ContextError", errors |-> ctx.errors,
                  engine |-> engine]
            ELSE with_effects(ctx, effect_map_to_vec(loaded.result))
        with_units(loaded) ==
            IF ~loaded.ok
            THEN [status |-> "UnitConfigError", errors |-> loaded.errors,
                  engine |-> engine]
            ELSE with_context(loaded,
                    initialize_context(config, new_audio_config, loaded.result,
                                       checks))
    IN  with_units(create_effect_units(
                     change_audio_config(factory, new_audio_config), config.effects))

----------------------------------------------------------------------------
(* The configurations construction is checked on *)

Src(suffix) == SOURCE_PREFIX \o suffix
Snk(suffix) == SINK_PREFIX \o suffix

\* Declared buffer names: internal names, external slots in and out of
\* range, and external prefixes with an empty, signed, padded or
\* non-numeric suffix.
BufNames ==
    { <<"a">>, <<"b">>,
      Src(<<"0">>), Src(<<"9">>), Src(<<"1", "0">>), Src(<<"9", "9">>),
      Src(<<>>), Src(<<"x">>), Src(<<"+", "1">>), Src(<<"0", "1">>),
      Snk(<<"0">>), Snk(<<"1", "0">>), Snk(<<>>) }

BypassDecl(bind_name, enabled) ==
    [effect_name |-> "Bypass/Mono", bind_name |-> bind_name,
     config |-> <<>>, enabled |-> enabled]

\* buffer lists, under one known effect and no connection
BufferFamily(cfg) ==
    \E k \in 0..MaxBufs : \E b \in [1..k -> BufNames] :
        cfg = [buffers |-> b, effects |-> <<BypassDecl("e1", TRUE)>>,
               connections |-> <<>>]

\* names a drawn connection uses: declared internal, declared source,
\* declared sink, undeclared
ConnNames == { <<"a">>, Src(<<"0">>), Snk(<<"0">>), <<"z">> }
ConnEffects == {"e1", "nope"}

RECURSIVE SumUpTo(_, _)
SumUpTo(lens, j) == IF j = 0 THEN 0 ELSE lens[j] + SumUpTo(lens, j - 1)

\* the j-th piece of s cut into pieces of the lengths lens
Slice(s, lens, j) == SubSeq(s, SumUpTo(lens, j - 1) + 1, SumUpTo(lens, j))

\* connection lists of at most MaxConns declarations that use at most
\* MaxTargets names together, over a valid buffer list and one known effect
ConnFamily(cfg) ==
    \E n \in 0..MaxConns : \E lens \in [1..(2 * n) -> 0..MaxTargets] :
        /\ SumUpTo(lens, 2 * n) <= MaxTargets
        /\ \E s \in [1..SumUpTo(lens, 2 * n) -> ConnNames] :
           \E effs \in [1..n -> ConnEffects] :
              cfg = [buffers |-> << Src(<<"0">>), <<"a">>, Snk(<<"0">>) >>,
                     effects |-> <<BypassDecl("e1", TRUE)>>,
                     connections |->
                        [i \in 1..n |->
                            [effect |-> effs[i],
                             reads |-> Slice(s, lens, 2 * i - 1),
                             writes |-> Slice(s, lens, 2 * i)]]]

\* effect declarations: known and unknown effect names, repeated bind names
EffDecls ==
    { [effect_name |-> n, bind_name |-> b, config |-> <<>>, enabled |-> en] :
        n \in {"Bypass/Mono", "Delay/Basic", "Nonexistent"},
        b \in {"e1", "e2"}, en \in BOOLEAN }

MixedBufLists ==
    { << <<"a">>, Src(<<"0">>), Snk(<<"0">>) >>,
      << <<"a">>, <<"a">> >>,
      << Src(<<"9", "9">>) >> }

MixedConnLists ==
    { <<>>,
      <<[effect |-> "e1", reads |-> <<Src(<<"0">>)>>, writes |-> <<Snk(<<"0">>)>>]>>,
      <<[effect |-> "e1", reads |-> << <<"a">>, <<"a">> >>, writes |-> <<>>]>>,
      <<[effect |-> "nope", reads |-> << <<"z">> >>, writes |-> <<>>]>> }

\* effect lists, over valid and invalid buffer lists and connection lists
MixedFamily(cfg) ==
    \E k \in 0..MaxEffects : \E e \in [1..k -> EffDecls] :
    \E b \in MixedBufLists : \E c \in MixedConnLists :
        cfg = [buffers |-> b, effects |-> e, connections |-> c]

\* the longest config list of a declaration
MaxConfig == 2

\* config entries: two parameters Delay/Basic advertises and a name no
\* effect advertises, each with two values (0.0 and 500.0)
ConfigEntries ==
    { [name |-> n, value |-> [tag |-> "F", v |-> v]] :
        n \in {"delay_time_ms", "wet_dry_pct", "nope"}, v \in {0, 500 * ONE} }

\* two declarations with config lists, the second under its own or under
\* the first one's bind name, over a valid buffer list and no connection
ParamFamily(cfg) ==
    \E k \in 0..MaxConfig : \E c1 \in [1..k -> ConfigEntries] :
    \E c2 \in {<<>>} \cup {<<entry>> : entry \in ConfigEntries} :
    \E n1, n2 \in {"Bypass/Mono", "Delay/Basic"} : \E b2 \in {"e1", "e2"} :
        cfg = [buffers |-> << Src(<<"0">>), <<"a">>, Snk(<<"0">>) >>,
               effects |-> << [effect_name |-> n1, bind_name |-> "e1",
                               config |-> c1, enabled |-> TRUE],
                              [effect_name |-> n2, bind_name |-> b2,
                               config |-> c2, enabled |-> TRUE] >>,
               connections |-> <<>>]

BoundedConfig(cfg) == BufferFamily(cfg) \/ ConnFamily(cfg) \/ MixedFamily(cfg)

----------------------------------------------------------------------------
(* Construction as a state machine: BuildSpec *)

not_created == [status |-> "NotCreated", errors |-> <<>>, engine |-> no_engine]

\* the engine and thread state before an engine exists
NoEngineState ==
    /\ effects = <<>>
    /\ enable_info = <<>>
    /\ mappings = <<>>
    /\ connections = <<>>
    /\ buffers = <<>>
    /\ external_ins = <<>>
    /\ external_outs = <<>>
    /\ async_param_update_queue = None
    /\ host_in = <<>>
    /\ host_out = <<>>
    /\ in_frolic = FALSE
    /\ conn_i = 0
    /\ num_samples = 0
    /\ exec_log = <<>>
    /\ frolic_returned = FALSE
    /\ panicked = FALSE

BuildInit ==
    /\ audio_config = [sample_rate |-> 2, max_block_size |-> MaxBlockSize]
    /\ factory_exts = loaded_set
    /\ BoundedConfig(parsed_config)
    /\ overflow_checks \in BOOLEAN
    /\ create_result = not_created
    /\ NoEngineState
    /\ in_hist = <<>>
    /\ out_hist = <<>>
    /\ session_info = None
    /\ solo = None
    /\ solo_trace = <<>>

\* Otters::create on the drawn configuration
CreateEngine ==
    /\ create_result.status = "NotCreated"
    /\ create_result' = create(audio_config, factory_exts, parsed_config, overflow_checks)
    /\ effects' = create_result'.engine.effects
    /\ enable_info' = create_result'.engine.enable_info
    /\ mappings' = create_result'.engine.pm.mappings
    /\ connections' = create_result'.engine.context.connections
    /\ buffers' = create_result'.engine.context.buffers
    /\ external_ins' = create_result'.engine.context.external_ins
    /\ external_outs' = create_result'.engine.context.external_outs
    /\ panicked' = (create_result'.status = "Panic")
    /\ UNCHANGED <<soloVars, streamVars, session_info, audio_config, factory_exts, parsed_config,
                   overflow_checks,
                   async_param_update_queue, host_in, host_out, in_frolic, conn_i,
                   num_samples, exec_log, frolic_returned>>

\* the highest sample rate the host switches to, or builds the engines at
\* whose delay line is retuned
MaxRate == 2

\* the audio configurations the host switches to
NewAudioConfigs ==
    { [sample_rate |-> rate, max_block_size |-> MaxBlockSize] : rate \in 1..MaxRate }

\* Otters::update_audio_config on the engine that was built
UpdateAudioConfig(new_audio_config) ==
    /\ create_result.status = "Ok"
    /\ ~panicked
    /\ \E r \in {update_audio_config(
                   [context |-> [buffers |-> buffers, connections |-> connections,
                                 external_ins |-> external_ins,
                                 external_outs |-> external_outs],
                    effects |-> effects, enable_info |-> enable_info,
                    pm |-> create_result.engine.pm],
                   assemble_factory(audio_config, factory_exts), parsed_config,
                   new_audio_config, overflow_checks)} :
           /\ audio_config' = new_audio_config
           /\ effects' = r.engine.effects
           /\ enable_info' = r.engine.enable_info
           /\ mappings' = r.engine.pm.mappings
           /\ connections' = r.engine.context.connections
           /\ buffers' = r.engine.context.buffers
           /\ external_ins' = r.engine.context.external_ins
           /\ external_outs' = r.engine.context.external_outs
           /\ panicked' = (r.status = "Panic")
    /\ UNCHANGED <<soloVars, streamVars, session_info, factory_exts, parsed_config,
                   overflow_checks, create_result,
                   async_param_update_queue, host_in, host_out, in_frolic, conn_i,
                   num_samples, exec_log, frolic_returned>>

BuildNext == CreateEngine

BuildSpec == BuildInit /\ [][BuildNext]_vars

----------------------------------------------------------------------------
(* Construction over composed factory extensions: FactorySpec *)

\* most extensions a host composes
MaxExts == 2

\* an extension of the host's own: it registers both names of the loaded
\* set, each with the constructor of the other kind
host_effects ==
    [name \in {"Bypass/Mono", "Delay/Basic"} |->
        IF name = "Bypass/Mono" THEN "Delay/Basic" ELSE "Bypass/Mono"]

FactoryExtensions == {bypass_effects, delay_effects, reverb_effects, host_effects}

\* effect names a declaration asks for: two registered, two that no
\* extension registers
AskedNames == {"Bypass/Mono", "Delay/Basic", "Nonexistent", "Missing"}

\* distinct bind names
FactoryBindNames == <<"e1", "e2", "e3", "e4">>

\* one to MaxEffects declarations under distinct bind names, over a valid
\* buffer list and no connection
FactoryFamily(cfg) ==
    \E k \in 1..Min(MaxEffects, Len(FactoryBindNames)) :
    \E names \in [1..k -> AskedNames] :
        cfg = [buffers |-> << Src(<<"0">>), <<"a">>, Snk(<<"0">>) >>,
               effects |-> [j \in 1..k |->
                              [effect_name |-> names[j],
                               bind_name |-> FactoryBindNames[j],
                               config |-> <<>>, enabled |-> TRUE]],
               connections |-> <<>>]

FactoryInit ==
    /\ audio_config = [sample_rate |-> 2, max_block_size |-> MaxBlockSize]
    /\ \E k \in 0..MaxExts : factory_exts \in [1..k -> FactoryExtensions]
    /\ FactoryFamily(parsed_config)
    /\ overflow_checks = TRUE
    /\ create_result = not_created
    /\ NoEngineState
    /\ in_hist = <<>>
    /\ out_hist = <<>>
    /\ session_info = None
    /\ solo = None
    /\ solo_trace = <<>>

FactoryNext == CreateEngine

FactorySpec == FactoryInit /\ [][FactoryNext]_vars

----------------------------------------------------------------------------
(* Construction and reconfiguration of boards with config lists: ParamSpec *)

ParamInit ==
    /\ audio_config = [sample_rate |-> 2, max_block_size |-> MaxBlockSize]
    /\ factory_exts = loaded_set
    /\ ParamFamily(parsed_config)
    /\ overflow_checks = TRUE
    /\ create_result = not_created
    /\ NoEngineState
    /\ in_hist = <<>>
    /\ out_hist = <<>>
    /\ session_info = None
    /\ solo = None
    /\ solo_trace = <<>>

ParamNext ==
    \/ CreateEngine
    \/ \E new_audio_config \in NewAudioConfigs : UpdateAudioConfig(new_audio_config)

ParamSpec == ParamInit /\ [][ParamNext]_vars

----------------------------------------------------------------------------
(* utils/ringbuf.rs, utils/buf_rw.rs, context.rs: buffer access *)

\* AudioBufferReader / AudioBufferWriter, and the panic an access can end in
NullBuf == [kind |-> "Null", ref |-> 0]
InternalBuf(buf_idx) == [kind |-> "Internal", ref |-> buf_idx]
ExternalBuf(ptr) == [kind |-> "External", ref |-> ptr]
PanicBuf == [kind |-> "Panic", ref |-> 0]

\* BoardContext::get_buffer_for_read. borrowed_mut: the internal buffers
\* with a live RefMut (RefCell::borrow panics on those). A Vec index past
\* the end panics.
get_buffer_for_read(ctx, buf_idx, borrowed_mut) ==
    IF buf_idx >= FIRST_INPUT_IDX
    THEN IF buf_idx >= FIRST_INPUT_IDX + MAX_ALLOWABLE_INPUTS
         THEN NullBuf
         ELSE LET norm_idx == buf_idx - FIRST_INPUT_IDX
              IN  IF norm_idx >= Len(ctx.external_ins) THEN PanicBuf
                  ELSE IF ctx.external_ins[norm_idx + 1] = 0 THEN NullBuf
                  ELSE ExternalBuf(ctx.external_ins[norm_idx + 1])
    ELSE IF buf_idx >= Len(ctx.buffers) THEN NullBuf
         ELSE IF buf_idx \in borrowed_mut THEN PanicBuf
         ELSE InternalBuf(buf_idx)

\* BoardContext::get_buffer_for_write. borrowed: the internal buffers with
\* a live Ref or RefMut (RefCell::borrow_mut panics on those).
get_buffer_for_write(ctx, buf_idx, borrowed) ==
    IF buf_idx >= FIRST_OUTPUT_IDX
    THEN IF buf_idx >= FIRST_OUTPUT_IDX + MAX_ALLOWABLE_OUTPUTS
         THEN NullBuf
         ELSE LET norm_idx == buf_idx - FIRST_OUTPUT_IDX
              IN  IF norm_idx >= Len(ctx.external_outs) THEN PanicBuf
                  ELSE IF ctx.external_outs[norm_idx + 1] = 0 THEN NullBuf
                  ELSE ExternalBuf(ctx.external_outs[buf_idx - FIRST_OUTPUT_IDX + 1])
    ELSE IF buf_idx >= Len(ctx.buffers) THEN NullBuf
         ELSE IF buf_idx \in borrowed THEN PanicBuf
         ELSE InternalBuf(buf_idx)

\* The memory a block touches: mem is [buffers, host_in, host_out].
\* AudioBufferReader::buf_read
buf_read(reader, mem, idx) ==
    CASE reader.kind = "Null" -> 0
      [] reader.kind = "Internal" ->
            simple_float_buffer_read(mem.buffers[reader.ref + 1], idx)
      [] reader.kind = "External" -> mem.host_in[idx + 1]

\* AudioBufferWriter::buf_write
buf_write(writer, mem, idx, value) ==
    CASE writer.kind = "Null" -> mem
      [] writer.kind = "Internal" ->
            [mem EXCEPT !.buffers[writer.ref + 1] =
                simple_float_buffer_write(@, value)]
      [] writer.kind = "External" ->
            [mem EXCEPT !.host_out[idx + 1] = value]

\* borrows an access holds
borrow_of(buf) == IF buf.kind = "Internal" THEN {buf.ref} ELSE {}

\* BoardContext::get_inputs_for_connection
get_inputs_for_connection(ctx, connection_idx) ==
    ctx.connections[connection_idx + 1].inputs_idxs

\* BoardContext::get_outputs_for_connection
get_outputs_for_connection(ctx, connection_idx) ==
    ctx.connections[connection_idx + 1].output_idxs

----------------------------------------------------------------------------
(* effects/mod.rs, effects/bypass.rs: execute *)

\* for i in from..num_samples { write_buf.buf_write(i, 0.0) }
RECURSIVE write_zeros(_, _, _, _)
write_zeros(write_buf, mem, i, n) ==
    IF i >= n THEN mem
    ELSE write_zeros(write_buf, buf_write(write_buf, mem, i, 0), i + 1, n)

\* for i in from..num_samples { write_buf.buf_write(i, read_buf.buf_read(i)) }
RECURSIVE copy_samples(_, _, _, _, _)
copy_samples(read_buf, write_buf, mem, i, n) ==
    IF i >= n THEN mem
    ELSE copy_samples(read_buf, write_buf,
                      buf_write(write_buf, mem, i, buf_read(read_buf, mem, i)),
                      i + 1, n)

\* basic_single_in_single_out. Returns [panic, some, read_buf, write_buf, mem].
basic_single_in_single_out(ctx, mem, connection_idx, n) ==
    LET with_read_buf(write_buf, read_buf) ==
            [panic |-> read_buf.kind = "Panic", some |-> TRUE,
             read_buf |-> read_buf, write_buf |-> write_buf, mem |-> mem]
        with_write_buf(inputs, write_buf) ==
            IF write_buf.kind = "Panic"
            THEN [panic |-> TRUE, some |-> FALSE, read_buf |-> NullBuf,
                  write_buf |-> NullBuf, mem |-> mem]
            ELSE IF Len(inputs) < 1
            THEN [panic |-> FALSE, some |-> FALSE, read_buf |-> NullBuf,
                  write_buf |-> write_buf,
                  mem |-> write_zeros(write_buf, mem, 0, n)]
            ELSE with_read_buf(write_buf,
                    get_buffer_for_read(ctx, inputs[1], borrow_of(write_buf)))
        with_connection(inputs, outputs) ==
            IF Len(outputs) < 1
            THEN [panic |-> FALSE, some |-> FALSE, read_buf |-> NullBuf,
                  write_buf |-> NullBuf, mem |-> mem]
            ELSE with_write_buf(inputs, get_buffer_for_write(ctx, outputs[1], {}))
    IN  with_connection(get_inputs_for_connection(ctx, connection_idx),
                        get_outputs_for_connection(ctx, connection_idx))

\* a bypass that copies the whole block whatever num_samples is
mono_bypass_execute_whole_block(ctx, mem, connection_idx, n) ==
    LET with_bufs(maybe_bufs) ==
            IF maybe_bufs.panic THEN [panic |-> TRUE, mem |-> maybe_bufs.mem]
            ELSE IF ~maybe_bufs.some THEN [panic |-> FALSE, mem |-> maybe_bufs.mem]
            ELSE [panic |-> FALSE,
                  mem |-> copy_samples(maybe_bufs.read_buf, maybe_bufs.write_buf,
                                       maybe_bufs.mem, 0, MaxBlockSize)]
    IN  with_bufs(basic_single_in_single_out(ctx, mem, connection_idx, n))

\* MonoBypass::execute. Returns [panic, mem].
mono_bypass_execute(ctx, mem, connection_idx, n) ==
    LET with_bufs(maybe_bufs) ==
            IF maybe_bufs.panic THEN [panic |-> TRUE, mem |-> maybe_bufs.mem]
            ELSE IF ~maybe_bufs.some THEN [panic |-> FALSE, mem |-> maybe_bufs.mem]
            ELSE [panic |-> FALSE,
                  mem |-> copy_samples(maybe_bufs.read_buf, maybe_bufs.write_buf,
                                       maybe_bufs.mem, 0, n)]
    IN  with_bufs(basic_single_in_single_out(ctx, mem, connection_idx, n))

\* GenericBypass::execute, first loop: pairs i..min_end-1
RECURSIVE generic_bypass_pairs(_, _, _, _, _, _, _)
generic_bypass_pairs(ctx, st, inputs, outputs, i, min_end, n) ==
    IF i >= min_end \/ st.panic THEN st
    ELSE LET read_buf == get_buffer_for_read(ctx, inputs[i + 1], {})
             write_buf == get_buffer_for_write(ctx, outputs[i + 1],
                                               borrow_of(read_buf))
         IN  IF read_buf.kind = "Panic" \/ write_buf.kind = "Panic"
             THEN [st EXCEPT !.panic = TRUE]
             ELSE generic_bypass_pairs(ctx,
                    [panic |-> FALSE,
                     mem |-> copy_samples(read_buf, write_buf, st.mem, 0, n)],
                    inputs, outputs, i + 1, min_end, n)

\* GenericBypass::execute, second loop: for i in min_end..outputs.len()
RECURSIVE generic_bypass_extras(_, _, _, _, _)
generic_bypass_extras(ctx, st, i, outputs_len, n) ==
    IF i >= outputs_len \/ st.panic THEN st
    ELSE LET write_buf == get_buffer_for_write(ctx, i, {})
         IN  IF write_buf.kind = "Panic"
             THEN [st EXCEPT !.panic = TRUE]
             ELSE generic_bypass_extras(ctx,
                    [panic |-> FALSE, mem |-> write_zeros(write_buf, st.mem, 0, n)],
                    i + 1, outputs_len, n)

\* GenericBypass::execute. Returns [panic, mem].
generic_bypass_execute(ctx, mem, connection_idx, n) ==
    LET inputs == get_inputs_for_connection(ctx, connection_idx)
        outputs == get_outputs_for_connection(ctx, connection_idx)
        min_end == Min(Len(inputs), Len(outputs))
        paired == generic_bypass_pairs(ctx, [panic |-> FALSE, mem |-> mem],
                                       inputs, outputs, 0, min_end, n)
    IN  IF Len(inputs) = min_end
        THEN generic_bypass_extras(ctx, paired, min_end, Len(outputs), n)
        ELSE paired

\* MonoDelayBasic::execute, the loop over the samples i..n-1. st is
\* [panic, mem, delay_buf].
RECURSIVE mono_delay_basic_samples(_, _, _, _, _, _)
mono_delay_basic_samples(unit, read_buf, write_buf, st, i, n) ==
    IF i >= n \/ st.panic THEN st
    ELSE LET wetness == as_flt(unit.params[PARAM_WET_DRY_PCT + 1])
             dryness == ONE - wetness
             feedback == as_flt(unit.params[PARAM_FEEDBACK_PCT + 1])
             xn == buf_read(read_buf, st.mem, i)
             delayed == read_delayed_sample(st.delay_buf)
             yn == delayed.value
             dn == xn + (feedback * yn) \div ONE
             on == (dryness * xn + wetness * yn) \div ONE
         IN  IF delayed.panic THEN [st EXCEPT !.panic = TRUE]
             ELSE mono_delay_basic_samples(unit, read_buf, write_buf,
                    [panic |-> FALSE,
                     mem |-> buf_write(write_buf, st.mem, i, on),
                     delay_buf |-> write_sample(st.delay_buf, dn)],
                    i + 1, n)

\* MonoDelayBasic::execute. Returns [panic, mem, unit].
mono_delay_basic_execute(unit, ctx, mem, connection_idx, n) ==
    LET outcome(st) ==
            [panic |-> st.panic, mem |-> st.mem,
             unit |-> [unit EXCEPT !.delay_buf = st.delay_buf]]
        with_bufs(maybe_bufs) ==
            IF maybe_bufs.panic
            THEN [panic |-> TRUE, mem |-> maybe_bufs.mem, unit |-> unit]
            ELSE IF ~maybe_bufs.some
            THEN [panic |-> FALSE, mem |-> maybe_bufs.mem, unit |-> unit]
            ELSE outcome(mono_delay_basic_samples(unit, maybe_bufs.read_buf,
                            maybe_bufs.write_buf,
                            [panic |-> FALSE, mem |-> maybe_bufs.mem,
                             delay_buf |-> unit.delay_buf],
                            0, n))
    IN  with_bufs(basic_single_in_single_out(ctx, mem, connection_idx, n))

\* dyn AudioEffect::execute, for the units this model carries. Returns
\* [panic, mem, unit].
effect_execute(unit, ctx, mem, connection_idx, n) ==
    IF unit.effect_name = "Delay/Basic"
    THEN mono_delay_basic_execute(unit, ctx, mem, connection_idx, n)
    ELSE LET outcome(r) == [panic |-> r.panic, mem |-> r.mem, unit |-> unit]
         IN  outcome(mono_bypass_execute(ctx, mem, connection_idx, n))

----------------------------------------------------------------------------
(* The running engine: Spec *)

\* two Bypass/Mono units chained @SOURCE_0 -> a -> @SINK_0
ChainBoard ==
    [buffers |-> << Src(<<"0">>), <<"a">>, Snk(<<"0">>) >>,
     effects |-> << BypassDecl("A", TRUE), BypassDecl("B", TRUE) >>,
     connections |->
        << [effect |-> "A", reads |-> << Src(<<"0">>) >>, writes |-> << <<"a">> >>],
           [effect |-> "B", reads |-> << <<"a">> >>, writes |-> << Snk(<<"0">>) >>] >>]

\* a disabled Delay/Basic between @SOURCE_0 and @SINK_0
DelayBoard ==
    [buffers |-> << Src(<<"0">>), Snk(<<"0">>) >>,
     effects |-> << [effect_name |-> "Delay/Basic", bind_name |-> "d",
                     config |-> <<>>, enabled |-> FALSE] >>,
     connections |->
        << [effect |-> "d", reads |-> << Src(<<"0">>) >>,
            writes |-> << Snk(<<"0">>) >>] >>]

\* a Bypass/Mono reading the external slot 7
HighSlotBoard ==
    [buffers |-> << Src(<<"7">>), Snk(<<"0">>) >>,
     effects |-> << BypassDecl("p", TRUE) >>,
     connections |->
        << [effect |-> "p", reads |-> << Src(<<"7">>) >>,
            writes |-> << Snk(<<"0">>) >>] >>]

\* the identity board: one Bypass/Mono from @SOURCE_0 to @SINK_0
IdentityBoard ==
    [buffers |-> << Src(<<"0">>), Snk(<<"0">>) >>,
     effects |-> << BypassDecl("p", TRUE) >>,
     connections |->
        << [effect |-> "p", reads |-> << Src(<<"0">>) >>,
            writes |-> << Snk(<<"0">>) >>] >>]

\* a disabled Bypass/Mono with one input and two outputs, the second output
\* the first of two internal buffers
ExtrasBoard ==
    [buffers |-> << Src(<<"0">>), <<"a">>, <<"b">>, Snk(<<"0">>) >>,
     effects |-> << BypassDecl("x", FALSE) >>,
     connections |->
        << [effect |-> "x", reads |-> << Src(<<"0">>) >>,
            writes |-> << Snk(<<"0">>), <<"a">> >>] >>]

RunBoards == {ChainBoard, DelayBoard, HighSlotBoard, IdentityBoard, ExtrasBoard}

\* slots the host binds: the first, the first past the pointer vectors, and
\* the first past the advertised ones
BindSlots == {0, MAX_EXTERNAL_INS, MAX_ALLOWABLE_INPUTS}

\* host pointers: 0 is null, 1 points at the host's block
HostPtrs == {0, 1}

\* blocks the host hands in: a rising and a falling ramp
InputBlocks ==
    { [i \in 1..MaxBlockSize |-> i * ONE],
      [i \in 1..MaxBlockSize |-> (MaxBlockSize + 1 - i) * ONE] }

\* parameter values the control thread sends
FltValues == {1000}
IntValues == {1}

\* the global indices addressed, out of those the engine registered
ParamIdxs == 0..(Min(Len(mappings), MaxParams) - 1)

Init ==
    /\ audio_config = [sample_rate |-> 2, max_block_size |-> MaxBlockSize]
    /\ factory_exts = loaded_set
    /\ parsed_config \in RunBoards
    /\ overflow_checks = TRUE
    /\ create_result = create(audio_config, factory_exts, parsed_config, overflow_checks)
    /\ create_result.status = "Ok"
    /\ effects = create_result.engine.effects
    /\ enable_info = create_result.engine.enable_info
    /\ mappings = create_result.engine.pm.mappings
    /\ connections = create_result.engine.context.connections
    /\ buffers = create_result.engine.context.buffers
    /\ external_ins = create_result.engine.context.external_ins
    /\ external_outs = create_result.engine.context.external_outs
    /\ async_param_update_queue = None
    /\ host_in = [i \in 1..MaxBlockSize |-> 0]
    /\ host_out = [i \in 1..MaxBlockSize |-> 0]
    /\ in_frolic = FALSE
    /\ conn_i = 0
    /\ num_samples = 0
    /\ exec_log = <<>>
    /\ frolic_returned = FALSE
    /\ panicked = FALSE
    /\ in_hist = <<>>
    /\ out_hist = <<>>
    /\ session_info = None
    /\ solo = None
    /\ solo_trace = <<>>

\* BoardContext::bind_source. Returns [panic, external_ins].
bind_source(ins, source_idx, source_ptr) ==
    IF source_idx >= MAX_ALLOWABLE_INPUTS
    THEN [panic |-> FALSE, external_ins |-> ins]
    ELSE IF source_idx >= Len(ins)
    THEN [panic |-> TRUE, external_ins |-> ins]
    ELSE [panic |-> FALSE, external_ins |-> [ins EXCEPT ![source_idx + 1] = source_ptr]]

\* BoardContext::bind_sink. Returns [panic, external_outs].
bind_sink(outs, sink_idx, sink_ptr) ==
    IF sink_idx >= MAX_ALLOWABLE_OUTPUTS
    THEN [panic |-> FALSE, external_outs |-> outs]
    ELSE IF sink_idx >= Len(outs)
    THEN [panic |-> TRUE, external_outs |-> outs]
    ELSE [panic |-> FALSE, external_outs |-> [outs EXCEPT ![sink_idx + 1] = sink_ptr]]

\* Otters::bind_input, between blocks
BindInput(input_idx, input_ptr) ==
    /\ ~panicked /\ ~in_frolic
    /\ LET r == bind_source(external_ins, input_idx, input_ptr)
       IN  /\ external_ins' = r.external_ins
           /\ panicked' = r.panic
    /\ UNCHANGED <<soloVars, streamVars, session_info, buildVars, effects, enable_info, mappings, connections, buffers,
                   external_outs, async_param_update_queue, host_in, host_out,
                   in_frolic, conn_i, num_samples, exec_log, frolic_returned>>

\* Otters::bind_output, between blocks
BindOutput(output_idx, output_ptr) ==
    /\ ~panicked /\ ~in_frolic
    /\ LET r == bind_sink(external_outs, output_idx, output_ptr)
       IN  /\ external_outs' = r.external_outs
           /\ panicked' = r.panic
    /\ UNCHANGED <<soloVars, streamVars, session_info, buildVars, effects, enable_info, mappings, connections, buffers,
                   external_ins, async_param_update_queue, host_in, host_out,
                   in_frolic, conn_i, num_samples, exec_log, frolic_returned>>

\* ParameterMappingManager::create_async_param_update_context: the
\* session info, one entry per key of bind_name_to_effect_type (the queue
\* it creates is the action's)
create_async_param_update_context(pm) ==
    [x \in DOMAIN pm.bind_name_to_effect_type |->
        [effect_name |-> pm.bind_name_to_effect_type[x],
         global_idxs |-> pm.bind_name_to_glob_idxs[x]]]

\* Otters::setup_async_param_updater: a new queue, whose receiver replaces
\* the stored one; the caller gets the sender and the session info
SetupAsyncParamUpdater ==
    /\ ~panicked /\ ~in_frolic
    /\ async_param_update_queue' = Some(<<>>)
    /\ session_info' = Some(create_async_param_update_context(create_result.engine.pm))
    /\ UNCHANGED <<soloVars, streamVars, buildVars, effects, enable_info, mappings, connections, buffers,
                   external_ins, external_outs, threadVars>>

\* Sender::send of the update queue
rt_queue_send(queue, update) == Append(queue, update)

\* OttersParamModifierContext::set_flt_param_value, on the control thread
SetFltParamValue(global_idx, value) ==
    /\ ~panicked
    /\ async_param_update_queue.some
    /\ Len(async_param_update_queue.val) < MaxSends
    /\ async_param_update_queue' =
         Some(rt_queue_send(async_param_update_queue.val,
                            [global_idx |-> global_idx,
                             value |-> [tag |-> "F", v |-> value]]))
    /\ UNCHANGED <<soloVars, streamVars, session_info, buildVars, effects, enable_info, mappings, connections, buffers,
                   external_ins, external_outs, threadVars>>

\* OttersParamModifierContext::set_int_param_value, on the control thread
SetIntParamValue(global_idx, value) ==
    /\ ~panicked
    /\ async_param_update_queue.some
    /\ Len(async_param_update_queue.val) < MaxSends
    /\ async_param_update_queue' =
         Some(rt_queue_send(async_param_update_queue.val,
                            [global_idx |-> global_idx,
                             value |-> [tag |-> "N", v |-> value]]))
    /\ UNCHANGED <<soloVars, streamVars, session_info, buildVars, effects, enable_info, mappings, connections, buffers,
                   external_ins, external_outs, threadVars>>

\* The host fills its input block and enters Otters::frolic(n)
FrolicCall(n, block) ==
    /\ ~panicked /\ ~in_frolic
    /\ host_in' = block
    /\ in_frolic' = TRUE
    /\ conn_i' = 0
    /\ num_samples' = n
    /\ exec_log' = <<>>
    /\ UNCHANGED <<soloVars, streamVars, session_info, buildVars, engineVars, host_out, frolic_returned, panicked>>

\* the pairs taken last to first
frolic_enumerate_rev(conns) ==
    [k \in 1..Len(conns) |-> [i |-> Len(conns) - k, connection |-> conns[Len(conns) + 1 - k]]]

\* the loop body with the lookup of the enabled flag left out
frolic_iteration_always_execute(ctx, mem, effs, enabled, item, n) ==
    LET executed(r) ==
            [panic |-> r.panic, mem |-> r.mem,
             effects |-> [effs EXCEPT ![item.connection.ordinal + 1] = r.unit],
             executed |-> [connection |-> item.i, samples |-> n]]
    IN  executed(effect_execute(effs[item.connection.ordinal + 1], ctx, mem, item.i, n))

\* self.context.get_connections().iter().enumerate(): the pairs
\* (i, connection) in the order the loop of frolic takes them
frolic_enumerate(conns) ==
    [k \in 1..Len(conns) |-> [i |-> k - 1, connection |-> conns[k]]]

\* The body of the loop of frolic for the pair (i, connection), on
\* [buffers, host_in, host_out]. Returns [panic, mem, effects, executed],
\* executed being the (connection index, sample count) the execute call was
\* handed.
frolic_iteration(ctx, mem, effs, enabled, item, n) ==
    LET executed(r) ==
            [panic |-> r.panic, mem |-> r.mem,
             effects |-> [effs EXCEPT ![item.connection.ordinal + 1] = r.unit],
             executed |-> [connection |-> item.i, samples |-> n]]
        bypassed(r) ==
            [panic |-> r.panic, mem |-> r.mem, effects |-> effs,
             executed |-> [connection |-> item.i, samples |-> n]]
    IN  IF enabled[item.connection.ordinal + 1]
        THEN executed(effect_execute(effs[item.connection.ordinal + 1], ctx, mem,
                                     item.i, n))
        ELSE bypassed(generic_bypass_execute(ctx, mem, item.i, n))

\* One iteration of Otters::frolic's loop over the connections; conn_i
\* counts the pairs the iterator has yielded.
FrolicStep ==
    /\ ~panicked /\ in_frolic
    /\ conn_i < Len(frolic_enumerate(connections))
    /\ \E r \in {frolic_iteration(
                     [buffers |-> buffers, connections |-> connections,
                      external_ins |-> external_ins, external_outs |-> external_outs],
                     [buffers |-> buffers, host_in |-> host_in, host_out |-> host_out],
                     effects, enable_info,
                     frolic_enumerate(connections)[conn_i + 1], num_samples)} :
           /\ buffers' = r.mem.buffers
           /\ host_out' = r.mem.host_out
           /\ effects' = r.effects
           /\ panicked' = r.panic
           /\ exec_log' = Append(exec_log, r.executed)
    /\ conn_i' = conn_i + 1
    /\ UNCHANGED <<soloVars, streamVars, session_info, buildVars, enable_info, mappings, connections,
                   external_ins, external_outs, async_param_update_queue,
                   host_in, in_frolic, num_samples, frolic_returned>>

\* Otters::frolic returns when its loop is exhausted
FrolicReturn ==
    /\ ~panicked /\ in_frolic
    /\ conn_i >= Len(frolic_enumerate(connections))
    /\ in_frolic' = FALSE
    /\ frolic_returned' = TRUE
    /\ UNCHANGED <<soloVars, streamVars, session_info, buildVars, engineVars, host_in, host_out, conn_i, num_samples,
                   exec_log, panicked>>

Next ==
    \/ \E k \in BindSlots, ptr \in HostPtrs : BindInput(k, ptr)
    \/ \E k \in BindSlots, ptr \in HostPtrs : BindOutput(k, ptr)
    \/ SetupAsyncParamUpdater
    \/ \E g \in ParamIdxs, v \in FltValues : SetFltParamValue(g, v)
    \/ \E g \in ParamIdxs, v \in IntValues : SetIntParamValue(g, v)
    \/ \E n \in 1..audio_config.max_block_size, block \in InputBlocks : FrolicCall(n, block)
    \/ FrolicStep
    \/ FrolicReturn

Spec == Init /\ [][Next]_vars

\* The audio callback keeps being called: the audio thread's steps are
\* taken whenever they stay enabled.
AudioThread ==
    \/ \E n \in 1..audio_config.max_block_size, block \in InputBlocks : FrolicCall(n, block)
    \/ FrolicStep
    \/ FrolicReturn

FairSpec == Spec /\ WF_vars(AudioThread)

----------------------------------------------------------------------------
(* The delay line of a Delay/Basic unit, retuned and run sample by sample *)

\* the delay times asked for, in thousandths of a millisecond: from half a
\* sample below zero to past the capacity, in steps of half a sample
TuneTimes(self) ==
    { (h * 500 * ONE) \div self.sample_rate : h \in (-1)..(2 * self.buf.capacity + 2) }

\* the state Otters::create leaves for the host on config, nothing bound,
\* no block run
Constructed(ac, config) ==
    /\ audio_config = ac
    /\ factory_exts = loaded_set
    /\ parsed_config = config
    /\ overflow_checks = TRUE
    /\ create_result = create(audio_config, factory_exts, parsed_config, overflow_checks)
    /\ create_result.status = "Ok"
    /\ effects = create_result.engine.effects
    /\ enable_info = create_result.engine.enable_info
    /\ mappings = create_result.engine.pm.mappings
    /\ connections = create_result.engine.context.connections
    /\ buffers = create_result.engine.context.buffers
    /\ external_ins = create_result.engine.context.external_ins
    /\ external_outs = create_result.engine.context.external_outs
    /\ async_param_update_queue = None
    /\ host_in = [i \in 1..MaxBlockSize |-> 0]
    /\ host_out = [i \in 1..MaxBlockSize |-> 0]
    /\ in_frolic = FALSE
    /\ conn_i = 0
    /\ num_samples = 0
    /\ exec_log = <<>>
    /\ frolic_returned = FALSE
    /\ panicked = FALSE
    /\ in_hist = <<>>
    /\ out_hist = <<>>
    /\ session_info = None
    /\ solo = None
    /\ solo_trace = <<>>

TuneInit ==
    \E rate \in 1..MaxRate :
       Constructed([sample_rate |-> rate, max_block_size |-> MaxBlockSize], DelayBoard)

\* DelayBuffer::set_delay_time_ms on the unit's delay line
TuneDelay(delay_time_ms, should_clamp_if_high) ==
    /\ ~panicked
    /\ effects' = [effects EXCEPT ![1].delay_buf =
                      set_delay_time_ms(@, delay_time_ms, should_clamp_if_high)]
    /\ UNCHANGED <<soloVars, streamVars, session_info, buildVars, enable_info, mappings, connections, buffers,
                   external_ins, external_outs, async_param_update_queue,
                   threadVars>>

\* one sample through the delay line: read_delayed_sample, then
\* write_sample, as the loop of MonoDelayBasic::execute does
DelayTick(sample) ==
    /\ ~panicked
    /\ LET delayed == read_delayed_sample(effects[1].delay_buf)
       IN  /\ panicked' = delayed.panic
           /\ effects' = IF delayed.panic THEN effects
                         ELSE [effects EXCEPT ![1].delay_buf = write_sample(@, sample)]
    /\ UNCHANGED <<soloVars, streamVars, session_info, buildVars, enable_info, mappings, connections, buffers,
                   external_ins, external_outs, async_param_update_queue,
                   host_in, host_out, in_frolic, conn_i, num_samples, exec_log,
                   frolic_returned>>

TuneNext ==
    \/ \E t \in TuneTimes(effects[1].delay_buf), clamp \in BOOLEAN : TuneDelay(t, clamp)
    \/ \E sample \in {0, ONE} : DelayTick(sample)

TuneSpec == TuneInit /\ [][TuneNext]_vars

----------------------------------------------------------------------------
(* A stream through a wet delay: the host binds source 0 and sink 0, then *)
(* runs consecutive blocks and keeps what went in and what came out.      *)

\* the longest stream, in samples
MaxStream == 4

\* the longest delay, in samples
MaxDelaySamples == 2

\* the delay time of d whole samples at the engine's sample rate, in
\* thousandths of a millisecond
delay_time_of(d, sample_rate) == (d * 1000 * ONE) \div sample_rate

\* a Delay/Basic between @SOURCE_0 and @SINK_0, enabled, configured fully
\* wet and without feedback, d samples long
WetDelayBoard(d, sample_rate) ==
    [buffers |-> << Src(<<"0">>), Snk(<<"0">>) >>,
     effects |-> << [effect_name |-> "Delay/Basic", bind_name |-> "d",
                     config |-> << [name |-> "delay_time_ms",
                                    value |-> [tag |-> "F",
                                               v |-> delay_time_of(d, sample_rate)]],
                                   [name |-> "feedback_pct",
                                    value |-> [tag |-> "F", v |-> 0]],
                                   [name |-> "wet_dry_pct",
                                    value |-> [tag |-> "F", v |-> ONE]] >>,
                     enabled |-> TRUE] >>,
     connections |->
        << [effect |-> "d", reads |-> << Src(<<"0">>) >>,
            writes |-> << Snk(<<"0">>) >>] >>]

\* the blocks of the stream: silence and unit impulses
StreamBlocks == [1..MaxBlockSize -> {0, ONE}]

DelayInit ==
    \E d \in 0..MaxDelaySamples :
       Constructed([sample_rate |-> 2, max_block_size |-> MaxBlockSize],
                   WetDelayBoard(d, 2))

\* the host runs the next block of the stream, source 0 and sink 0 bound
StreamCall(n, block) ==
    /\ external_ins[1] # 0 /\ external_outs[1] # 0
    /\ Len(in_hist) + n <= MaxStream
    /\ FrolicCall(n, block)

\* Otters::frolic returns; the host keeps the block it handed in and the
\* block it got back
StreamReturn ==
    /\ ~panicked /\ in_frolic
    /\ conn_i >= Len(frolic_enumerate(connections))
    /\ in_frolic' = FALSE
    /\ frolic_returned' = TRUE
    /\ in_hist' = in_hist \o SubSeq(host_in, 1, num_samples)
    /\ out_hist' = out_hist \o SubSeq(host_out, 1, num_samples)
    /\ UNCHANGED <<soloVars, session_info, buildVars, engineVars, host_in, host_out, conn_i, num_samples,
                   exec_log, panicked>>

DelayNext ==
    \/ BindInput(0, 1)
    \/ BindOutput(0, 1)
    \/ \E n \in 1..audio_config.max_block_size, block \in StreamBlocks : StreamCall(n, block)
    \/ FrolicStep
    \/ StreamReturn

DelaySpec == DelayInit /\ [][DelayNext]_vars

----------------------------------------------------------------------------
(* Execution order of a block *)

\* the connections 0..k-1 in declared order, each once, with n samples
InDeclaredOrder(k, n) == [j \in 1..k |-> [connection |-> j - 1, samples |-> n]]

\* C1: within one frolic call the connections are executed strictly in
\* declared order, each exactly once and for the whole block, before the
\* next one starts; the call returns only after the last connection.
C1_DeclaredOrder ==
    /\ in_frolic =>
          /\ conn_i <= Len(connections)
          /\ exec_log = InDeclaredOrder(conn_i, num_samples)
    /\ (frolic_returned /\ ~in_frolic) =>
          exec_log = InDeclaredOrder(Len(connections), num_samples)

\* a call on a board of two connections has returned
C1_Witness ==
    /\ frolic_returned /\ ~in_frolic /\ ~panicked
    /\ Len(connections) = 2
    /\ Len(exec_log) = 2

----------------------------------------------------------------------------
(* Internal buffers between connections *)

\* the internal buffer the second connection of ChainBoard reads
chain_buffer == buffers[connections[2].inputs_idxs[1] + 1]

\* C2: for every block size n up to max_block_size, a connection reading
\* an internal buffer written earlier in the same block reads at offset i
\* the value the writer stored at offset i; chained Bypass units therefore
\* leave sink[i] = source[i] for every i < n.
C2_InternalBufferCausality ==
    (parsed_config = ChainBoard /\ ~panicked /\ external_ins[1] # 0) =>
       /\ (in_frolic /\ conn_i = 1) =>
             \A i \in 0..(num_samples - 1) :
                simple_float_buffer_read(chain_buffer, i) = host_in[i + 1]
       /\ (in_frolic /\ conn_i = 2 /\ external_outs[1] # 0) =>
             \A i \in 0..(num_samples - 1) : host_out[i + 1] = host_in[i + 1]

----------------------------------------------------------------------------
(* External slots *)

\* C10: binding and using the external slots never faults: a bind of slot
\* k >= 10 is a no-op, a bind of slot k < 10 installs the pointer, unbound
\* slots read 0.0 and drop writes, and no operation indexes out of bounds
\* or panics.
C10_NoFaultOnExternalSlots == ~panicked

----------------------------------------------------------------------------
(* Asynchronous parameter updates *)

\* an update of the delay time (global index 0 of DelayBoard)
delay_time_update ==
    [global_idx |-> 0, value |-> [tag |-> "F", v |-> CHOOSE v \in FltValues : TRUE]]

\* update sits in the queue the engine holds the receiver of
Enqueued(update) ==
    /\ async_param_update_queue.some
    /\ \E j \in 1..Len(async_param_update_queue.val) : async_param_update_queue.val[j] = update

\* the addressed effect processes with the value of update
Visible(update) ==
    /\ update.global_idx < Len(mappings)
    /\ LET target == effect_and_param_idx(mappings, update.global_idx)
       IN  effects[target.effect_idx + 1].params[target.param_idx + 1] = update.value

\* C3: an enqueued parameter update becomes visible to the addressed
\* effect after finitely many later frolic calls (or the engine has
\* stopped on a fault).
C3_EventualVisibility ==
    Enqueued(delay_time_update) ~> (Visible(delay_time_update) \/ panicked)

----------------------------------------------------------------------------
(* Construction: what Otters::create reports *)

created == create_result.status # "NotCreated"

reported(error) ==
    \E j \in DOMAIN create_result.errors : create_result.errors[j] = error

count_reported(error) ==
    Cardinality({j \in DOMAIN create_result.errors : create_result.errors[j] = error})

\* the stages of construction, each run on the drawn configuration
factory_of_config == assemble_factory(audio_config, factory_exts)
units_of_config == create_effect_units(factory_of_config, parsed_config.effects)
buffers_of_config ==
    create_mem_buffers(create_construction_intermediate, parsed_config.buffers,
                       audio_config.max_block_size, overflow_checks)

declared_bind_names ==
    {parsed_config.effects[j].bind_name : j \in DOMAIN parsed_config.effects}
declared_buffer_names ==
    {parsed_config.buffers[j] : j \in DOMAIN parsed_config.buffers}

\* C5: a configuration that has an unknown effect, a buffer error and a
\* connection error at once gets all three kinds reported by the one error
\* create returns.
C5_AllProblemsInOneError ==
    LET unknown == {j \in DOMAIN parsed_config.effects :
                      ~create_effect_unit(factory_of_config, parsed_config.effects[j].effect_name).some}
        dangling == {j \in DOMAIN parsed_config.connections :
                      parsed_config.connections[j].effect \notin declared_bind_names}
    IN  (created /\ unknown # {} /\ buffers_of_config.errors # <<>> /\ dangling # {}) =>
           /\ \A j \in unknown :
                 reported(no_such_effect_error(parsed_config.effects[j].effect_name))
           /\ \A j \in DOMAIN buffers_of_config.errors :
                 reported(buffers_of_config.errors[j])
           /\ \A j \in dangling :
                 reported(nonexistent_node_error(parsed_config.connections[j].effect))

occurrences(names, name) == {j \in DOMAIN names : names[j] = name}

has_repeated_name(names) ==
    \E i, j \in DOMAIN names : i < j /\ names[i] = names[j]

\* a name on its own gets an index
is_valid_name(name) ==
    generate_idx_for_buf_name(create_construction_intermediate, name, FALSE).idx.some

\* C6: a buffer list with a repeated name makes create return, without a
\* fault and without a context, an error list that holds one "Redeclaration
\* of buffer" entry per repeated occurrence and one entry per occurrence of
\* an invalid name.
C6_RepeatedNamesReported ==
    (created /\ units_of_config.ok /\ has_repeated_name(parsed_config.buffers)) =>
       /\ create_result.status = "ContextError"
       /\ \A j \in DOMAIN parsed_config.buffers :
             LET name == parsed_config.buffers[j]
                 times == Cardinality(occurrences(parsed_config.buffers, name))
             IN  IF is_valid_name(name)
                 THEN count_reported(redeclaration_error(name)) = times - 1
                 ELSE count_reported(generate_idx_error(name)) = times

----------------------------------------------------------------------------
(* Construction: the indices of a board that was built *)

\* the slot number a name carries after prefix, if it carries one
external_slot(name, prefix) ==
    IF starts_with(name, prefix)
    THEN parse_usize(SubSeq(name, Len(prefix) + 1, Len(name)))
    ELSE None

is_internal_name(name) ==
    /\ ~external_slot(name, SOURCE_PREFIX).some
    /\ ~external_slot(name, SINK_PREFIX).some

in_index_ranges(idx, M) ==
    \/ idx \in 0..(M - 1)
    \/ idx \in FIRST_INPUT_IDX..(FIRST_INPUT_IDX + MAX_ALLOWABLE_INPUTS - 1)
    \/ idx \in FIRST_OUTPUT_IDX..(FIRST_OUTPUT_IDX + MAX_ALLOWABLE_OUTPUTS - 1)

\* C7: on a board that was built, @SOURCE_k maps to 1024 + k and @SINK_k
\* to 2048 + k with k < 10, every other declared name maps to its own
\* internal index, the internal indices being 0..M-1 in declaration order;
\* every index a connection holds is the index of the name it declared,
\* lies in one of the three ranges, and, when internal, refers to an
\* allocated buffer.
C7_IndexLayout ==
    create_result.status = "Ok" =>
       LET names == parsed_config.buffers
           idx_of == buffers_of_config.helper.buf_name_to_idx
           internal == SelectSeq(names, is_internal_name)
           M == Len(internal)
       IN  /\ \A j \in DOMAIN names :
                 LET source_slot == external_slot(names[j], SOURCE_PREFIX)
                     sink_slot == external_slot(names[j], SINK_PREFIX)
                 IN  /\ source_slot.some =>
                           /\ source_slot.val < MAX_ALLOWABLE_INPUTS
                           /\ idx_of[names[j]] = FIRST_INPUT_IDX + source_slot.val
                     /\ sink_slot.some =>
                           /\ sink_slot.val < MAX_ALLOWABLE_OUTPUTS
                           /\ idx_of[names[j]] = FIRST_OUTPUT_IDX + sink_slot.val
           /\ \A p \in 1..M : idx_of[internal[p]] = p - 1
           /\ Len(buffers) = M
           /\ Len(connections) = Len(parsed_config.connections)
           /\ \A c \in DOMAIN connections :
                 /\ connections[c].inputs_idxs =
                       [r \in DOMAIN parsed_config.connections[c].reads |->
                           idx_of[parsed_config.connections[c].reads[r]]]
                 /\ connections[c].output_idxs =
                       [w \in DOMAIN parsed_config.connections[c].writes |->
                           idx_of[parsed_config.connections[c].writes[w]]]
                 /\ \A r \in DOMAIN connections[c].inputs_idxs :
                       in_index_ranges(connections[c].inputs_idxs[r], Len(buffers))
                 /\ \A w \in DOMAIN connections[c].output_idxs :
                       in_index_ranges(connections[c].output_idxs[w], Len(buffers))

\* a board was built whose connection reads an external source into an
\* internal buffer declared after it
C7_Witness ==
    /\ create_result.status = "Ok"
    /\ \E j \in DOMAIN parsed_config.buffers :
          /\ is_internal_name(parsed_config.buffers[j])
          /\ \E i \in 1..(j - 1) : ~is_internal_name(parsed_config.buffers[i])
    /\ \E c \in DOMAIN connections :
          /\ \E r \in DOMAIN connections[c].inputs_idxs :
                connections[c].inputs_idxs[r] >= FIRST_INPUT_IDX
          /\ \E w \in DOMAIN connections[c].output_idxs :
                connections[c].output_idxs[w] < Len(buffers)

\* a slot suffix: decimal digits only, naming a slot below 10
well_formed_slot(suffix) ==
    /\ suffix # <<>>
    /\ \A i \in DOMAIN suffix : is_digit(suffix[i])
    /\ digits_value(suffix, 0) < MAX_ALLOWABLE_INPUTS

malformed_external(name) ==
    \/ /\ starts_with(name, SOURCE_PREFIX)
       /\ ~well_formed_slot(SubSeq(name, Len(SOURCE_PREFIX) + 1, Len(name)))
    \/ /\ starts_with(name, SINK_PREFIX)
       /\ ~well_formed_slot(SubSeq(name, Len(SINK_PREFIX) + 1, Len(name)))

\* C8: a declared name that starts with @SOURCE_ or @SINK_ and whose
\* suffix is not a decimal slot number below 10 (too large, non-numeric or
\* empty) makes construction fail with an error naming that buffer.
C8_MalformedExternalRejected ==
    (created /\ units_of_config.ok) =>
       \A j \in DOMAIN parsed_config.buffers :
          malformed_external(parsed_config.buffers[j]) =>
             /\ create_result.status = "ContextError"
             /\ \E e \in DOMAIN create_result.errors :
                   create_result.errors[e].name = parsed_config.buffers[j]

----------------------------------------------------------------------------
(* Construction: the connection pass *)

\* the names a connection declaration uses, reads first
targets_of(connection_info) == connection_info.reads \o connection_info.writes

\* the entries the violations of one connection declaration call for
violations_of(connection_info) ==
    LET targets == targets_of(connection_info)
    IN  (IF connection_info.effect \in declared_bind_names THEN {}
         ELSE {nonexistent_node_error(connection_info.effect)})
        \cup { [msg |-> "No such buffer", name |-> targets[t]] :
                 t \in {u \in DOMAIN targets : targets[u] \notin declared_buffer_names} }
        \cup { [msg |-> "Buffer already used", name |-> targets[t]] :
                 t \in {u \in DOMAIN targets :
                          /\ targets[u] \in declared_buffer_names
                          /\ \E v \in 1..(u - 1) : targets[v] = targets[u]} }

\* C9: over known effects with distinct bind names and a valid buffer
\* list, construction succeeds exactly when every connection names a
\* declared bind name, uses declared buffers only and uses none twice
\* within itself; every violation of every connection is reported.
C9_ConnectionPass ==
    LET bind_names_distinct ==
            \A i, j \in DOMAIN parsed_config.effects :
               parsed_config.effects[i].bind_name = parsed_config.effects[j].bind_name => i = j
    IN  (created /\ units_of_config.ok /\ bind_names_distinct /\ buffers_of_config.ok) =>
           /\ create_result.status = "Ok" <=>
                 \A c \in DOMAIN parsed_config.connections :
                    violations_of(parsed_config.connections[c]) = {}
           /\ \A c \in DOMAIN parsed_config.connections :
                 \A violation \in violations_of(parsed_config.connections[c]) :
                    reported(violation)

----------------------------------------------------------------------------
(* Construction: effect ordinals and dispatch *)

\* C11: on every configuration create accepts, the effect ordinals are
\* dense in declaration order: the engine's effect vector and enabled
\* vector hold, at index j, the instance and the flag of declaration j, and
\* the ordinal of every connection is the index of the declaration that
\* carries the connection's bind name.
C11_OrdinalsDenseAndDispatch ==
    create_result.status = "Ok" =>
       /\ Len(effects) = Len(parsed_config.effects)
       /\ Len(enable_info) = Len(parsed_config.effects)
       /\ \A j \in DOMAIN effects :
             /\ effects[j].effect_name = parsed_config.effects[j].effect_name
             /\ enable_info[j] = parsed_config.effects[j].enabled
       /\ \A c \in DOMAIN connections :
             /\ connections[c].ordinal + 1 \in DOMAIN parsed_config.effects
             /\ parsed_config.effects[connections[c].ordinal + 1].bind_name =
                   parsed_config.connections[c].effect

----------------------------------------------------------------------------
(* Disabled effects *)

\* the memory of the engine and of the host, before and after a step
mem_now == [buffers |-> buffers, host_in |-> host_in, host_out |-> host_out]
mem_next == [buffers |-> buffers', host_in |-> host_in', host_out |-> host_out']

\* the n samples a reader of the buffer with index buf_idx sees
read_block(buf_idx, mem, n) ==
    LET ctx == [buffers |-> buffers, connections |-> connections,
                external_ins |-> external_ins, external_outs |-> external_outs]
        reader == get_buffer_for_read(ctx, buf_idx, {})
    IN  [i \in 1..n |-> buf_read(reader, mem, i - 1)]

\* self after the samples of values were written to it in turn
RECURSIVE write_all(_, _)
write_all(self, values) ==
    IF values = <<>> THEN self
    ELSE write_all(simple_float_buffer_write(self, Head(values)), Tail(values))

\* the buffer with index buf_idx has received values between before and
\* after: a bound sink holds them at the offsets 0..n-1, an internal buffer
\* had them written in turn
received(buf_idx, before, after, values) ==
    IF buf_idx >= FIRST_OUTPUT_IDX
    THEN external_outs[buf_idx - FIRST_OUTPUT_IDX + 1] # 0 =>
            \A i \in DOMAIN values : after.host_out[i] = values[i]
    ELSE after.buffers[buf_idx + 1] = write_all(before.buffers[buf_idx + 1], values)

\* the step of frolic's loop that meets a connection of a disabled effect
DisabledStep ==
    /\ FrolicStep
    /\ ~enable_info[connections[conn_i + 1].ordinal + 1]

\* C12: for a connection whose effect is disabled, frolic(n) does not
\* invoke the effect's execute, so the effect's internal state is
\* unchanged, and copies paired input j to output j for all n samples; with
\* one input and one output the output block equals the input block.
C12_DisabledIsBypassed ==
    [][DisabledStep =>
          LET inputs == connections[conn_i + 1].inputs_idxs
              outputs == connections[conn_i + 1].output_idxs
          IN  /\ effects' = effects
              /\ \A j \in 1..Min(Len(inputs), Len(outputs)) :
                    received(outputs[j], mem_now, mem_next,
                             read_block(inputs[j], mem_now, num_samples))
              /\ (Len(inputs) = 1 /\ Len(outputs) = 1 /\ external_ins[1] # 0
                    /\ external_outs[1] # 0) =>
                    \A i \in 1..num_samples : host_out'[i] = host_in[i]]_vars

\* the disabled delay of DelayBoard was passed over on a block the host
\* supplied, source and sink bound
C12_Witness ==
    /\ parsed_config = DelayBoard
    /\ ~enable_info[1]
    /\ in_frolic /\ conn_i = 1 /\ ~panicked
    /\ external_ins[1] # 0 /\ external_outs[1] # 0
    /\ \E i \in 1..num_samples : host_in[i] # 0
    /\ \A i \in 1..num_samples : host_out[i] = host_in[i]

----------------------------------------------------------------------------
(* The identity board *)

\* C13: on the identity board, source 0 and sink 0 bound, every frolic(n)
\* leaves output[i] = input[i] for every i < n and writes no sample of the
\* host's output block at an index >= n.
C13_IdentityBoard ==
    [][(FrolicStep /\ parsed_config = IdentityBoard
          /\ external_ins[1] # 0 /\ external_outs[1] # 0) =>
          /\ ~panicked'
          /\ \A i \in 1..num_samples : host_out'[i] = host_in[i]
          /\ \A i \in (num_samples + 1)..Len(host_out) : host_out'[i] = host_out[i]]_vars

\* a short block went through the identity board and left the rest of the
\* host's output block as an earlier call had filled it
C13_Witness ==
    /\ parsed_config = IdentityBoard
    /\ in_frolic /\ conn_i = 1 /\ ~panicked
    /\ external_ins[1] # 0 /\ external_outs[1] # 0
    /\ num_samples < Len(host_out)
    /\ \A i \in 1..num_samples : host_out[i] = host_in[i] /\ host_in[i] # 0
    /\ \E i \in (num_samples + 1)..Len(host_out) :
          host_out[i] # 0 /\ host_out[i] # host_in[i]

----------------------------------------------------------------------------
(* The wet delay *)

\* the delay of the board in whole samples: D = T * sample_rate / 1000
configured_delay_samples ==
    as_usize((parsed_config.effects[1].config[1].value.v * audio_config.sample_rate)
             \div 1000)

\* C14: with wet = 1, feedback = 0 and a delay time of D whole samples,
\* the k-th output sample of the stream (k counted from 0 over all the
\* frolic calls) is the (k-D)-th input sample for k >= D and 0 for k < D.
C14_WetDelayShiftsByD ==
    \A k \in 0..(Len(out_hist) - 1) :
       out_hist[k + 1] = IF k >= configured_delay_samples
                         THEN in_hist[k - configured_delay_samples + 1]
                         ELSE 0

----------------------------------------------------------------------------
(* The clamp of the delay line *)

\* the whole samples a delay time asks for: floor(t * sr / 1000)
requested_whole(self, delay_time_ms) ==
    as_usize((delay_time_ms * self.sample_rate) \div 1000)

\* the whole-sample delay is within 0..C-2 and both read offsets are
\* within the ring
in_range(self) ==
    /\ 0 <= self.whole_delay_time_samples
    /\ self.whole_delay_time_samples <= self.buf.capacity - 2
    /\ self.buf.limit - self.whole_delay_time_samples - 1 \in 0..(self.buf.limit - 1)
    /\ self.buf.limit - self.whole_delay_time_samples - 2 \in 0..(self.buf.limit - 1)

\* what a call of set_delay_time_ms(t, clamp) leaves, given the number of
\* whole samples at and above which a time counts as too large
clamp_contract(too_large_from) ==
    \A t \in TuneTimes(effects[1].delay_buf), clamp \in BOOLEAN :
       TuneDelay(t, clamp) =>
          LET self == effects[1].delay_buf
              after == effects'[1].delay_buf
              C == self.buf.capacity
          IN  /\ (clamp /\ t >= 0 /\ requested_whole(self, t) >= C - 1) =>
                    /\ after.whole_delay_time_samples = C - 2
                    /\ after.fract_delay_time_samples = NEXT_BELOW_ONE
              /\ (t < 0 \/ (~clamp /\ requested_whole(self, t) >= too_large_from[C])) =>
                    after = self
              /\ in_range(after)

\* C15 as stated, a time being too large from C - 1 whole samples on, with
\* or without clamp: for a DelayBuffer of capacity C >= 2,
\* set_delay_time_ms(t, clamp=true) with t >= 0 and floor(t*sr/1000) >=
\* C - 1 leaves whole = C - 2 and the fraction at the largest float below
\* 1; a negative t, or a too-large t with clamp=false, leaves the delay
\* unchanged; after any sequence of calls 0 <= whole <= C - 2 and both read
\* offsets are within [0, limit).
C15_ClampAsStated ==
    [][clamp_contract([C \in Nat |-> C - 1])]_vars

\* C15, amended: without clamp a time is refused, and the delay left
\* unchanged, from C whole samples on; C - 1 whole samples without clamp
\* are accepted and saturate to C - 2 and the largest float below 1, as
\* with clamp. The rest as stated.
C15_ClampAmended ==
    [][/\ clamp_contract([C \in Nat |-> C])
       /\ in_range(effects[1].delay_buf)
       /\ ~panicked']_vars

\* a time past the capacity was set with clamp and left the delay line
\* saturated
C15_Witness ==
    /\ effects[1].delay_buf.buf.capacity >= 2
    /\ requested_whole(effects[1].delay_buf, effects[1].delay_buf.delay_time_ms) >=
          effects[1].delay_buf.buf.capacity
    /\ effects[1].delay_buf.whole_delay_time_samples = effects[1].delay_buf.buf.capacity - 2
    /\ effects[1].delay_buf.fract_delay_time_samples = NEXT_BELOW_ONE

----------------------------------------------------------------------------
(* GenericBypass *)

\* C16: GenericBypass.execute on a connection with inputs I[0..a) and
\* outputs O[0..b): every paired output O[j], j < min(a,b), receives the n
\* samples read from I[j]; when b > a every extra output O[j], a <= j < b,
\* receives n zeros; no buffer that is not among the connection's resolved
\* outputs is written.
C16_GenericBypass ==
    [][DisabledStep =>
          LET inputs == connections[conn_i + 1].inputs_idxs
              outputs == connections[conn_i + 1].output_idxs
              resolved == {outputs[j] : j \in DOMAIN outputs}
          IN  /\ \A j \in 1..Min(Len(inputs), Len(outputs)) :
                    received(outputs[j], mem_now, mem_next,
                             read_block(inputs[j], mem_now, num_samples))
              /\ \A j \in (Len(inputs) + 1)..Len(outputs) :
                    received(outputs[j], mem_now, mem_next,
                             [i \in 1..num_samples |-> 0])
              /\ \A buf_idx \in 0..(Len(buffers) - 1) :
                    buf_idx \notin resolved => buffers'[buf_idx + 1] = buffers[buf_idx + 1]
              /\ (\A buf_idx \in resolved : buf_idx < FIRST_OUTPUT_IDX) =>
                    host_out' = host_out]_vars

----------------------------------------------------------------------------
(* Global parameter indices *)

\* the parameters declaration j advertises
advertised_by(j) == advertise_parameters(parsed_config.effects[j].effect_name)

\* the number of parameters the declarations 1..j advertise together
RECURSIVE params_up_to(_)
params_up_to(j) == IF j = 0 THEN 0 ELSE params_up_to(j - 1) + Len(advertised_by(j))

\* the global index of the local parameter p (from 0) of declaration j
assigned_global_idx(j, p) == params_up_to(j - 1) + p

\* C17: after construction the global parameter indices are exactly
\* 0..P-1, P the number of parameters all declared effects advertise,
\* assigned in increasing effect ordinal and, within an effect, increasing
\* local index; effect_and_param_idx(g) returns the (effect ordinal, local
\* index) g was assigned for, distinct g give distinct pairs, and the table
\* of a bind name lists exactly its effect's (parameter name, g) pairs.
C17_GlobalParameterIndices ==
    create_result.status = "Ok" =>
       LET decls == parsed_config.effects
           pm == create_result.engine.pm
       IN  /\ Len(pm.mappings) = params_up_to(Len(decls))
           /\ \A j \in DOMAIN decls : \A p \in 0..(Len(advertised_by(j)) - 1) :
                 effect_and_param_idx(pm.mappings, assigned_global_idx(j, p)) =
                    [effect_idx |-> j - 1, param_idx |-> p]
           /\ \A g, h \in 0..(Len(pm.mappings) - 1) :
                 effect_and_param_idx(pm.mappings, g) =
                    effect_and_param_idx(pm.mappings, h) => g = h
           /\ \A j \in DOMAIN decls :
                 pm.bind_name_to_glob_idxs[decls[j].bind_name] =
                    [q \in 1..Len(advertised_by(j)) |->
                        [name |-> advertised_by(j)[q],
                         global_idx |-> assigned_global_idx(j, q - 1)]]

----------------------------------------------------------------------------
(* Initial parameter values *)

\* the local index (from 0) of the parameter called name among the names
\* advertised
local_idx_of(advertised, name) ==
    (CHOOSE p \in DOMAIN advertised : advertised[p] = name) - 1

\* unit after the entries of config were applied in list order, each entry
\* of an advertised name through set_effect_parameter at the parameter's
\* local index, the others skipped
RECURSIVE with_config_applied(_, _)
with_config_applied(unit, config) ==
    IF config = <<>> THEN unit
    ELSE LET entry == Head(config)
             advertised == advertise_parameters(unit.effect_name)
         IN  with_config_applied(
                IF \E p \in DOMAIN advertised : advertised[p] = entry.name
                THEN set_effect_parameter(unit, local_idx_of(advertised, entry.name),
                                          entry.value)
                ELSE unit,
                Tail(config))

\* C18: after create succeeds, the instance of every declaration holds its
\* defaults with the entries of its own config list applied in list order
\* through set_effect_parameter at the local index of the name (a later
\* entry of a name wins); entries of unknown names are ignored, and the
\* entries of one declaration change no parameter of another effect.
C18_InitialConfigApplied ==
    create_result.status = "Ok" =>
       /\ Len(effects) = Len(parsed_config.effects)
       /\ \A j \in DOMAIN parsed_config.effects :
             effects[j] =
                with_config_applied(
                   new_unit(parsed_config.effects[j].effect_name, audio_config),
                   parsed_config.effects[j].config)

----------------------------------------------------------------------------
(* update_audio_config *)

\* the engine create builds from the configuration under the audio
\* configuration now in force
fresh_engine ==
    create(audio_config, factory_exts, parsed_config, overflow_checks).engine

\* C19: after update_audio_config(new_ac) on an engine created from config
\* C the engine is the one create(new_ac, C) builds: every effect holds the
\* initial values of its config list over the defaults, and the connection
\* table, the ordinals, the enabled flags and the global parameter indices
\* are those of before the call.
C19_UpdateEquivalentToCreate ==
    (create_result.status = "Ok" /\ ~panicked) =>
       /\ effects = fresh_engine.effects
       /\ \A j \in DOMAIN effects : effects[j].params = create_result.engine.effects[j].params
       /\ connections = create_result.engine.context.connections
       /\ enable_info = create_result.engine.enable_info
       /\ mappings = create_result.engine.pm.mappings

----------------------------------------------------------------------------
(* The session info *)

\* C20: the session info setup_async_param_updater returns has exactly one
\* entry per declared bind name, which holds the type name of the effect
\* declared under it and the (parameter name, global index) pairs of all
\* the parameters it advertises, the global indices being those the engine
\* dispatches on.
C20_SessionInfo ==
    session_info.some =>
       /\ DOMAIN session_info.val = declared_bind_names
       /\ \A j \in DOMAIN parsed_config.effects :
             LET entry == session_info.val[parsed_config.effects[j].bind_name]
                 advertised == advertise_parameters(parsed_config.effects[j].effect_name)
             IN  /\ entry.effect_name = parsed_config.effects[j].effect_name
                 /\ Len(entry.global_idxs) = Len(advertised)
                 /\ \A p \in DOMAIN advertised :
                       /\ entry.global_idxs[p].name = advertised[p]
                       /\ entry.global_idxs[p].global_idx < Len(mappings)
                       /\ effect_and_param_idx(mappings, entry.global_idxs[p].global_idx) =
                             [effect_idx |-> j - 1, param_idx |-> p - 1]

----------------------------------------------------------------------------
(* C21: unknown effect names, and lookup through composed extensions *)

\* the extensions of the factory that register name
registering(name) == {e \in DOMAIN factory_exts : name \in DOMAIN factory_exts[e]}

\* the declarations whose effect_name no extension registers
unknown_decls ==
    {j \in DOMAIN parsed_config.effects :
        registering(parsed_config.effects[j].effect_name) = {}}

\* the j-th of the declarations no extension registers, in declared order
nth_unknown(k) ==
    CHOOSE j \in unknown_decls :
        Cardinality({i \in unknown_decls : i < j}) = k - 1

\* C21: create on a config with one or more declarations whose effect_name no
\* extension registers fails with a factory error that has one entry for
\* each such declaration, naming its effect name, and returns no engine;
\* when every name is registered, each unit was built by the constructor
\* of the first extension, in composition order, that registers its name.
C21_UnknownEffectsAndLookupOrder ==
    create_result.status # "NotCreated" =>
        IF unknown_decls # {}
        THEN /\ create_result.status = "UnitConfigError"
             /\ create_result.engine = no_engine
             /\ effects = <<>>
             /\ Len(create_result.errors) = Cardinality(unknown_decls)
             /\ \A k \in DOMAIN create_result.errors :
                    /\ create_result.errors[k].msg = "No such effect unit"
                    /\ create_result.errors[k].name =
                          parsed_config.effects[nth_unknown(k)].effect_name
        ELSE /\ create_result.status = "Ok"
             /\ Len(effects) = Len(parsed_config.effects)
             /\ \A j \in DOMAIN parsed_config.effects :
                  \A e \in registering(parsed_config.effects[j].effect_name) :
                    (\A d \in registering(parsed_config.effects[j].effect_name) : e <= d)
                    => effects[j] =
                          new_unit(factory_exts[e][parsed_config.effects[j].effect_name],
                                   audio_config)

\* create has failed on two declarations with different unknown names, under
\* a factory of two extensions
C21_Witness ==
    /\ create_result.status = "UnitConfigError"
    /\ Len(factory_exts) = 2
    /\ Cardinality(unknown_decls) = 2
    /\ create_result.errors[1].name # create_result.errors[2].name

----------------------------------------------------------------------------
(* One effect unit driven through the AudioEffect trait: enumerated
   parameters, and the biquad filter (FilterSpec) *)

\* most calls made to the unit in one behaviour
MaxCalls == 3

\* f32::round followed by `as i32`, on thousandths: half away from zero
round_as_i32(x) ==
    IF x >= 0 THEN (x + ONE \div 2) \div ONE ELSE -((ONE \div 2 - x) \div ONE)

\* enum IIRFilterType in declared order; the discriminant of a variant is
\* its position less one, and the closing count is itself a variant
IIRFilterType ==
    << "FirstOrderLowPass", "SecondOrderLowPass", "FirstOrderHighPass",
       "SecondOrderHighPass", "SecondOrderBandPass", "SecondOrderBandStop",
       "FirstOrderAllPass", "SecondOrderAllPass", "FirstOrderLowShelf",
       "FirstOrderHighShelf", "__NUM_IIR_FILTER_TYPES" >>

\* enum WaveShaperFunction in declared order
WaveShaperFunction ==
    << "Identity", "Arraya", "Sigmoid", "HyperbolicTangent", "InverseTangent",
       "FuzzExponential", "FuzzExponential2", "ArctangentSquareRoot",
       "SquareSign", "HardClip", "HalfRectifier", "FullRectifier",
       "__NUM_FUNCTIONS" >>

\* the kind of discriminant x among the real kinds of an enum, the closing
\* count left out: None if x is the discriminant of none of them
from_i32_real_kinds(variants, x) ==
    IF x >= 0 /\ x + 1 < Len(variants) THEN Some(variants[x + 1]) ELSE None

\* the derived FromPrimitive::from_i32: Some(variant) for the discriminant of
\* any declared variant, None for every other value
from_i32(variants, x) ==
    IF x >= 0 /\ x < Len(variants) THEN Some(variants[x + 1]) ELSE None

\* BoardEffectConfigParameterValue::as_enum::<T>, T given by its variants;
\* T::default() is the first variant for both enums
as_enum(param_value, variants) ==
    LET unwrap_or(y, default) == IF y.some THEN y.val ELSE default
    IN  unwrap_or(from_i32(variants,
                           IF param_value.tag = "N" THEN param_value.v
                           ELSE round_as_i32(param_value.v)),
                  variants[1])

\* the kinds whose constructor takes q, and those that take the shelf gain
SecondOrderKinds ==
    {"SecondOrderLowPass", "SecondOrderHighPass", "SecondOrderBandPass",
     "SecondOrderBandStop", "SecondOrderAllPass"}
ShelfKinds == {"FirstOrderLowShelf", "FirstOrderHighShelf"}

\* DEFAULT_Q, in thousandths
DEFAULT_Q == 707

\* the constructors of BiquadCoefficients (first_order_lpf ... first_order_
\* high_shelf): a0..d0 are a function of the kind and of the arguments the
\* constructor takes, held here as that application; the constructor stores
\* q (DEFAULT_Q unless it takes q) and shelf_gain_db (0 unless it takes it)
build_coefficients(iir_type, cutoff, sample_rate, q, gain_db) ==
    [taps |-> IF iir_type \in SecondOrderKinds THEN <<iir_type, cutoff, sample_rate, q>>
              ELSE IF iir_type \in ShelfKinds THEN <<iir_type, cutoff, sample_rate, gain_db>>
              ELSE <<iir_type, cutoff, sample_rate>>,
     cutoff |-> cutoff,
     sample_rate |-> sample_rate,
     q |-> IF iir_type \in SecondOrderKinds THEN q ELSE DEFAULT_Q,
     shelf_gain_db |-> IF iir_type \in ShelfKinds THEN gain_db ELSE 0,
     iir_type |-> iir_type]

\* BiquadCoefficients::recreate: the constructor of self.iir_type on the
\* fields of self; the closing count panics
recreate(c) ==
    IF c.iir_type = "__NUM_IIR_FILTER_TYPES"
    THEN [panic |-> TRUE, coefficients |-> c]
    ELSE [panic |-> FALSE,
          coefficients |->
              build_coefficients(c.iir_type, c.cutoff, c.sample_rate, c.q, c.shelf_gain_db)]

\* TinyFloatBuffer::new, z1, z2, write
tiny_new == [x |-> <<0, 0>>, next_idx |-> 0]
tiny_z2(t) == t.x[t.next_idx + 1]
tiny_z1(t) == t.x[((t.next_idx + 1) % 2) + 1]
tiny_write(t, v) == [x |-> [t.x EXCEPT ![t.next_idx + 1] = v],
                     next_idx |-> (t.next_idx + 1) % 2]

\* Biquad::change_sample_rate, change_type, change_cutoff, change_shelf_gain
\* and change_q: the coefficients become those of the setter of the named
\* field (store, then recreate); x and y are not touched
biquad_change(biquad, field, value) ==
    LET outcome(r) == [panic |-> r.panic,
                       biquad |-> IF r.panic THEN biquad
                                  ELSE [biquad EXCEPT !.coefficients = r.coefficients]]
    IN  outcome(recreate([biquad.coefficients EXCEPT ![field] = value]))

\* Biquad::filter: the difference equation is a function of the coefficients,
\* the input and the four history values, held as that application
biquad_filter(biquad, input) ==
    LET result == <<biquad.coefficients.taps, input,
                    tiny_z1(biquad.x), tiny_z2(biquad.x),
                    tiny_z1(biquad.y), tiny_z2(biquad.y)>>
    IN  [biquad EXCEPT !.x = tiny_write(@, input), !.y = tiny_write(@, result)]

\* PARAM_FILTER_TYPE .. PARAM_Q of biquad_filter.rs, PARAM_WAVESHAPER_FUNCTION
\* of waveshaping.rs
PARAM_FILTER_TYPE == 0
PARAM_CORNER_FREQ_HZ == 1
PARAM_BOOST_CUT_DB == 2
PARAM_Q == 3
PARAM_WAVESHAPER_FUNCTION == 0

\* BiquadFilter::new(ac) and WaveShaper::new()
solo_new(effect_name, ac) ==
    IF effect_name = "Filter/Biquad"
    THEN [effect_name |-> effect_name,
          params |-> << [tag |-> "N", v |-> 0], [tag |-> "F", v |-> 1024000],
                        [tag |-> "F", v |-> 0], [tag |-> "F", v |-> 707] >>,
          biquad |-> [coefficients |->
                         build_coefficients("FirstOrderLowPass", 1024000,
                                            ac.sample_rate, DEFAULT_Q, 0),
                      x |-> tiny_new, y |-> tiny_new]]
    ELSE [effect_name |-> effect_name,
          params |-> << [tag |-> "N", v |-> 0], [tag |-> "F", v |-> 4000] >>,
          real_waveshaper_function |-> "Identity"]

\* the field of the coefficients a parameter of BiquadFilter goes to, and
\* the value it is given
biquad_param_field(param_idx) ==
    IF param_idx = PARAM_CORNER_FREQ_HZ THEN "cutoff"
    ELSE IF param_idx = PARAM_FILTER_TYPE THEN "iir_type"
    ELSE IF param_idx = PARAM_BOOST_CUT_DB THEN "shelf_gain_db"
    ELSE "q"

\* AudioEffect::set_effect_parameter of BiquadFilter and of WaveShaper
solo_set_effect_parameter(unit, param_idx, param_value) ==
    IF unit.effect_name = "Filter/Biquad"
    THEN LET outcome(r) ==
                 [panic |-> r.panic,
                  unit |-> [unit EXCEPT !.params[param_idx + 1] = param_value,
                                        !.biquad = r.biquad]]
         IN  outcome(biquad_change(unit.biquad, biquad_param_field(param_idx),
                                   IF param_idx = PARAM_FILTER_TYPE
                                   THEN as_enum(param_value, IIRFilterType)
                                   ELSE as_flt(param_value)))
    ELSE [panic |-> FALSE,
          unit |-> [unit EXCEPT
                      !.params[param_idx + 1] = param_value,
                      !.real_waveshaper_function =
                          IF param_idx = PARAM_WAVESHAPER_FUNCTION
                          THEN as_enum(param_value, WaveShaperFunction)
                          ELSE @]]

\* AudioEffect::set_audio_parameters of BiquadFilter (change_sample_rate) and
\* of WaveShaper (nothing)
solo_set_audio_parameters(unit, new_config) ==
    IF unit.effect_name = "Filter/Biquad"
    THEN LET outcome(r) == [panic |-> r.panic, unit |-> [unit EXCEPT !.biquad = r.biquad]]
         IN  outcome(biquad_change(unit.biquad, "sample_rate", new_config.sample_rate))
    ELSE [panic |-> FALSE, unit |-> unit]

\* the values a host sets: every integer from below the first to above the
\* closing count of either enum, fractions that round onto a kind and onto
\* the closing count, and two values for each float parameter
EnumValues ==
    { [tag |-> "N", v |-> n] : n \in -1..(Len(WaveShaperFunction) + 1) }
    \cup { [tag |-> "F", v |-> 1400], [tag |-> "F", v |-> 9600], [tag |-> "F", v |-> -600] }
FilterFltValues == { [tag |-> "F", v |-> 2000], [tag |-> "F", v |-> 6000] }

FilterInit ==
    /\ audio_config = [sample_rate |-> 2, max_block_size |-> MaxBlockSize]
    /\ factory_exts = loaded_set
    /\ parsed_config = [buffers |-> <<>>, effects |-> <<>>, connections |-> <<>>]
    /\ overflow_checks = TRUE
    /\ create_result = not_created
    /\ NoEngineState
    /\ in_hist = <<>>
    /\ out_hist = <<>>
    /\ session_info = None
    /\ \E effect_name \in {"Filter/Biquad", "NonLinear/WaveShaper"} :
          solo = Some(solo_new(effect_name, audio_config))
    /\ solo_trace = <<>>

\* the host sets one parameter of the unit
SoloSetEffectParameter(param_idx, param_value) ==
    /\ solo.some /\ ~panicked
    /\ Len(solo_trace) < MaxCalls
    /\ param_idx < Len(solo.val.params)
    /\ \E r \in {solo_set_effect_parameter(solo.val, param_idx, param_value)} :
          /\ solo' = Some(r.unit)
          /\ panicked' = r.panic
    /\ solo_trace' = Append(solo_trace, [call |-> "set_effect_parameter",
                                         param_idx |-> param_idx, value |-> param_value])
    /\ UNCHANGED <<streamVars, session_info, buildVars, engineVars, host_in, host_out,
                   in_frolic, conn_i, num_samples, exec_log, frolic_returned>>

\* the host changes the audio configuration of the unit
SoloSetAudioParameters(new_config) ==
    /\ solo.some /\ ~panicked
    /\ Len(solo_trace) < MaxCalls
    /\ \E r \in {solo_set_audio_parameters(solo.val, new_config)} :
          /\ solo' = Some(r.unit)
          /\ panicked' = r.panic
    /\ solo_trace' = Append(solo_trace, [call |-> "set_audio_parameters",
                                         param_idx |-> 0,
                                         value |-> [tag |-> "F", v |-> new_config.sample_rate]])
    /\ UNCHANGED <<streamVars, session_info, buildVars, engineVars, host_in, host_out,
                   in_frolic, conn_i, num_samples, exec_log, frolic_returned>>

\* the filter of a BiquadFilter takes one sample (the body of the loop of
\* BiquadFilter::execute)
SoloFilterSample(input) ==
    /\ solo.some /\ ~panicked
    /\ solo.val.effect_name = "Filter/Biquad"
    /\ Len(solo_trace) < MaxCalls
    /\ solo' = Some([solo.val EXCEPT !.biquad = biquad_filter(@, input)])
    /\ solo_trace' = Append(solo_trace, [call |-> "filter", param_idx |-> 0,
                                         value |-> [tag |-> "F", v |-> input]])
    /\ UNCHANGED <<streamVars, session_info, buildVars, engineVars, threadVars>>

FilterNext ==
    \/ \E param_idx \in 0..3 :
       \E param_value \in IF param_idx = 0 THEN EnumValues ELSE FilterFltValues :
          SoloSetEffectParameter(param_idx, param_value)
    \/ \E new_config \in NewAudioConfigs : SoloSetAudioParameters(new_config)
    \/ \E input \in {500, -250} : SoloFilterSample(input)

FilterSpec == FilterInit /\ [][FilterNext]_vars

----------------------------------------------------------------------------
(* C22: enumerated parameters *)

\* the last call made to the unit set parameter 0 (filter_type or
\* waveshaper_function) to a value that rounds outside the real kinds
enum_set_outside_kinds ==
    /\ solo.some
    /\ solo_trace # <<>>
    /\ solo_trace[Len(solo_trace)].call = "set_effect_parameter"
    /\ solo_trace[Len(solo_trace)].param_idx = 0
    /\ ~from_i32_real_kinds(IF solo.val.effect_name = "Filter/Biquad"
                            THEN IIRFilterType ELSE WaveShaperFunction,
                            IF solo_trace[Len(solo_trace)].value.tag = "N"
                            THEN solo_trace[Len(solo_trace)].value.v
                            ELSE round_as_i32(solo_trace[Len(solo_trace)].value.v)).some

\* C22: a value that rounds outside the valid kinds of an enumerated
\* parameter (negative, or the number of kinds and above, the closing count
\* included) yields the default kind, and setting filter_type on a
\* Filter/Biquad or waveshaper_function on a NonLinear/WaveShaper never
\* panics.
C22_EnumOutOfRangeIsDefault ==
    /\ ~panicked
    /\ enum_set_outside_kinds =>
          IF solo.val.effect_name = "Filter/Biquad"
          THEN solo.val.biquad.coefficients.iir_type = "FirstOrderLowPass"
          ELSE solo.val.real_waveshaper_function = "Identity"

----------------------------------------------------------------------------
(* C27: the coefficients of a Biquad after a sequence of changes *)

\* the value most recently given to a float parameter by the calls of trace:
\* initial if no call set it
most_recent(trace, call, param_idx, initial) ==
    LET hits == {k \in DOMAIN trace :
                    trace[k].call = call /\ trace[k].param_idx = param_idx}
    IN  IF hits = {} THEN initial
        ELSE as_flt(trace[CHOOSE k \in hits : \A h \in hits : h <= k].value)

\* the taps built for kind iir_type from the most recently set cutoff, sample
\* rate, q and shelf gain
taps_from_latest(trace, iir_type) ==
    build_coefficients(
        iir_type,
        most_recent(trace, "set_effect_parameter", PARAM_CORNER_FREQ_HZ, 1024000),
        most_recent(trace, "set_audio_parameters", 0, audio_config.sample_rate),
        most_recent(trace, "set_effect_parameter", PARAM_Q, DEFAULT_Q),
        most_recent(trace, "set_effect_parameter", PARAM_BOOST_CUT_DB, 0)).taps

\* C27: after any call of change_type, change_cutoff, change_q,
\* change_shelf_gain or change_sample_rate that returns, the coefficients of
\* the Biquad are those built for its current kind from the most recently
\* set value of each of cutoff, sample rate, q and shelf gain, whatever the
\* order of the calls, and the x and y history is as it was before the call.
C27_CoefficientsFromLatestValues ==
    [][(/\ solo.some
        /\ solo.val.effect_name = "Filter/Biquad"
        /\ ~panicked'
        /\ solo_trace'[Len(solo_trace')].call # "filter")
       => /\ solo'.val.biquad.x = solo.val.biquad.x
          /\ solo'.val.biquad.y = solo.val.biquad.y
          /\ solo'.val.biquad.coefficients.taps =
                taps_from_latest(solo_trace', solo'.val.biquad.coefficients.iir_type)]_vars

----------------------------------------------------------------------------
(* The phase vocoder: effects/vocoder2.rs, utils/ringbuf.rs, pitch/ocean.rs *)

RECURSIVE aligned_vec(_, _)
\* the AlignedVec of the first n values of a function on 1..n
aligned_vec(f, n) == IF n = 0 THEN <<>> ELSE Append(aligned_vec(f, n - 1), f[n])

\* f32 multiplication on thousandths
fmul(a, b) == (a * b) \div ONE

\* mathutils::vcosf((n * TWO_PI) / frame_size) where the angle is a whole
\* number of quarter turns (frame sizes 1, 2 and 4)
vcosf_turn(n, frame_size) ==
    << ONE, 0, -ONE, 0 >>[((n * (4 \div frame_size)) % 4) + 1]

\* create_window: the analysis window and the inverse gain correction
create_window(window_type, overlap_pct, frame_size) ==
    LET r == [i \in 1..frame_size |->
                 IF window_type = "Hamming"
                 THEN 540 - fmul(460, vcosf_turn(i - 1, frame_size))
                 ELSE IF window_type = "Hann"
                 THEN 500 - (ONE - vcosf_turn(i - 1, frame_size))
                 ELSE 423 - fmul(498, vcosf_turn(i - 1, frame_size))
                          + fmul(79, vcosf_turn(i - 1, frame_size))]
        with_gain(window, sum) ==
            [window |-> window,
             inv_gain_correction |-> ((ONE - overlap_pct) * ONE) \div sum]
    IN  with_gain(aligned_vec(r, frame_size), SumUpTo(r, frame_size))

\* FFTCollectionBuffer::new(length), length a power of 2
fft_collection_buffer_new(length) ==
    [data |-> aligned_vec([i \in 1..length |-> 0], length), index_wrap_mask |-> length - 1,
     read_idx |-> 0, write_idx |-> 0]

\* a set_write_idx that leaves the write cursor at the read cursor
set_write_idx_off(buf, new_idx) == buf

\* FFTCollectionBuffer::set_write_idx
set_write_idx(buf, new_idx) ==
    [buf EXCEPT !.write_idx = IF new_idx >= Len(buf.data) THEN Len(buf.data) - 1
                              ELSE new_idx]

\* FFTCollectionBuffer::advance_read_idx and advance_write_idx, cursor the
\* field advanced: `& index_wrap_mask` of a mask 2^k - 1 is the remainder
\* modulo 2^k
advance_idx(buf, cursor) ==
    [buf EXCEPT ![cursor] = (@ + 1) % (buf.index_wrap_mask + 1)]

\* a rewind that leaves the cursor where the frame left it
rewind_idx_off(buf, cursor, count) == buf

\* FFTCollectionBuffer::rewind_read_idx and rewind_write_idx
rewind_idx(buf, cursor, count) ==
    [buf EXCEPT ![cursor] = IF count <= @ THEN @ - count
                            ELSE Len(buf.data) - 1 - (count - @ - 1)]

\* c32 multiplied by a power of the 4th root of unity -i
rot(z, p) ==
    IF p % 4 = 0 THEN z
    ELSE IF p % 4 = 1 THEN [re |-> z.im, im |-> -z.re]
    ELSE IF p % 4 = 2 THEN [re |-> -z.re, im |-> -z.im]
    ELSE [re |-> -z.im, im |-> z.re]

RECURSIVE csum(_, _)
\* the sum of the first n entries of a sequence of c32
csum(zs, n) ==
    LET plus(acc, z) == [re |-> acc.re + z.re, im |-> acc.im + z.im]
    IN  IF n = 0 THEN [re |-> 0, im |-> 0] ELSE plus(csum(zs, n - 1), zs[n])

\* C2CPlan32::c2c of the plan of the given sign (1 forward, 3 backward: the
\* exponent of -i per quarter turn), unnormalised, on a buffer of 1, 2 or 4
\* entries, where every twiddle factor is a power of -i
c2c(input, sign) ==
    aligned_vec(
        [k \in 1..Len(input) |->
            csum(aligned_vec([n \in 1..Len(input) |->
                                 rot(input[n], sign * (n - 1) * (k - 1) * (4 \div Len(input)))],
                             Len(input)),
                 Len(input))],
        Len(input))

\* VocoderBypass::new and OceanPitchShifter::new (semitone_difference 0,
\* frequency_multiplier 1.0)
freq_processor_new(kind) ==
    IF kind = "Ocean"
    THEN [kind |-> kind, params |-> << [tag |-> "N", v |-> 0] >>,
          frequency_multiplier |-> ONE, extra_params |-> None]
    ELSE [kind |-> kind]

\* FrequencyDomainAudioEffect::post_initialize: nothing for VocoderBypass;
\* OceanPitchShifter sets up its per-hop state (the unity roots, which a
\* frequency multiplier of 1.0 never reads, are held by their number)
post_initialize(proc, vocoder_context) ==
    IF proc.kind = "Ocean"
    THEN LET state(overlap_factor) ==
                 [overlap_factor |-> overlap_factor,
                  overlap_factor_sq |-> 2 ^ overlap_factor,
                  output_hop_index |-> -overlap_factor - 1,
                  frame_size |-> vocoder_context.frame_size,
                  hop_size |-> vocoder_context.hop_size,
                  num_input_bins |-> vocoder_context.frame_size \div 2 + 1,
                  num_output_bins |-> vocoder_context.frame_size \div 2 + 1,
                  zero_pad_factor |-> 1,
                  copied_window |-> vocoder_context.analysis_window,
                  unity_roots |-> 2 ^ overlap_factor]
         IN  [proc EXCEPT !.extra_params =
                 Some(state(vocoder_context.frame_size \div vocoder_context.hop_size))]
    ELSE proc

\* FrequencyDomainAudioEffect::execute(fft, output): VocoderBypass copies the
\* spectrum; OceanPitchShifter returns at once without its per-hop state, and
\* with it (at frequency multiplier 1.0, where every bin keeps its index and
\* no phase shift applies) keeps the bins below num_input_bins and counts the
\* hop
freq_execute(proc, fft, output) ==
    IF proc.kind = "Bypass" THEN [proc |-> proc, output |-> fft]
    ELSE IF ~proc.extra_params.some THEN [proc |-> proc, output |-> output]
    ELSE [proc |-> [proc EXCEPT !.extra_params.val.output_hop_index = @ + 1],
          output |-> [i \in 1..Len(fft) |->
                         IF i <= proc.extra_params.val.num_input_bins
                            /\ (i = 1 \/ i - 1 < proc.extra_params.val.num_output_bins)
                         THEN fft[i] ELSE [re |-> 0, im |-> 0]]]

\* sample_demodulation_window at frequency multiplier 1.0, where the
\* modified analysis window is the analysis window itself
sample_demodulation_window(window, frame_idx, frame_size, overlap_factor) ==
    LET inverse(r) == IF r <= 100 THEN 10 * ONE ELSE (ONE * ONE) \div r
    IN  inverse(SumUpTo([k \in 1..overlap_factor |->
                            fmul(window[(k - 1) * (frame_size \div overlap_factor)
                                        + frame_idx + 1],
                                 window[(k - 1) * (frame_size \div overlap_factor)
                                        + frame_idx + 1])],
                        overlap_factor))

\* FrequencyDomainAudioEffect::post_process(ifft): nothing for VocoderBypass
\* and for an OceanPitchShifter without per-hop state
freq_post_process(proc, ifft) ==
    IF proc.kind = "Bypass" THEN ifft
    ELSE IF ~proc.extra_params.some THEN ifft
    ELSE [i \in 1..Len(ifft) |->
             IF i <= proc.extra_params.val.hop_size
             THEN [ifft[i] EXCEPT !.re =
                      fmul(@, sample_demodulation_window(
                                  proc.extra_params.val.copied_window, i - 1,
                                  proc.extra_params.val.frame_size,
                                  proc.extra_params.val.overlap_factor))]
             ELSE ifft[i]]

\* PhaseVocoder::new
phase_vocoder_new(frame_size, hop_size, window_type, freq_processor) ==
    LET build(overlap_factor) ==
          LET finish(w) ==
                [vocoder_context |-> [frame_size |-> frame_size, hop_size |-> hop_size,
                                      analysis_window |-> w.window],
                 overlap_factor |-> overlap_factor,
                 inv_gain_correction |-> w.inv_gain_correction,
                 input_collection_buf |-> fft_collection_buffer_new(frame_size * 4),
                 output_collection_buf |->
                     set_write_idx(fft_collection_buffer_new(frame_size * 4), frame_size),
                 accumulated_sample_count |-> 0,
                 fft_context |->
                     [fft_input_buf |-> [i \in 1..frame_size |-> [re |-> 0, im |-> 0]],
                      fft_output_buf |-> [i \in 1..frame_size |-> [re |-> 0, im |-> 0]]],
                 freq_processor |-> freq_processor]
          IN  finish(create_window(window_type, overlap_factor, frame_size))
    IN  build(ONE - (hop_size * ONE) \div frame_size)

\* the frame the `time to do fft` loop reads: frame_size samples of the
\* input ring from its read cursor on, the cursor advancing with wrap
read_frame(buf, frame_size) ==
    aligned_vec([i \in 1..frame_size |->
                    buf.data[((buf.read_idx + i - 1) % (buf.index_wrap_mask + 1)) + 1]],
                frame_size)

\* overlap_add: ifft[i].re * inv_gain_correction is added to the output ring
\* at its write cursor, which advances with wrap
overlap_add(ifft, frame_size, buf, inv_gain_correction) ==
    [buf EXCEPT
        !.data = aligned_vec(
                    [j \in 1..Len(buf.data) |->
                        LET i == (j - 1 - buf.write_idx) % (buf.index_wrap_mask + 1)
                        IN  IF i < frame_size
                            THEN fmul(ifft[i + 1].re, inv_gain_correction) + buf.data[j]
                            ELSE buf.data[j]],
                    Len(buf.data)),
        !.write_idx = (@ + frame_size) % (buf.index_wrap_mask + 1)]

\* the `time to do fft` branch of execute_one, on the vocoder whose rings
\* hold the sample just taken: window the frame, transform, run the hosted
\* effect, transform back, post-process, overlap-add, rewind both cursors
process_frame(pv) ==
    LET F == pv.vocoder_context.frame_size
        H == pv.vocoder_context.hop_size
        add(frame, processed, after_post) ==
            [pv |-> [pv EXCEPT
                       !.input_collection_buf =
                            rewind_idx([@ EXCEPT !.read_idx =
                                           (@ + F) % (pv.input_collection_buf.index_wrap_mask + 1)],
                                       "read_idx", F - H),
                       !.output_collection_buf =
                            rewind_idx(overlap_add(after_post, F, @, pv.inv_gain_correction),
                                       "write_idx", F - H),
                       !.fft_context = [fft_input_buf |-> processed.output,
                                        fft_output_buf |-> after_post],
                       !.freq_processor = processed.proc,
                       !.accumulated_sample_count = @ - H],
             frame |-> frame]
        post(frame, processed) ==
            add(frame, processed,
                freq_post_process(processed.proc, c2c(processed.output, 3)))
        run(frame, windowed) ==
            post(frame, freq_execute(pv.freq_processor, c2c(windowed, 1), windowed))
        window(frame) ==
            run(frame,
                aligned_vec([i \in 1..F |->
                                [re |-> fmul(frame[i], pv.vocoder_context.analysis_window[i]),
                                 im |-> 0]], F))
    IN  window(read_frame(pv.input_collection_buf, F))

\* PhaseVocoder::execute_one
execute_one(pv, sample) ==
    LET result == pv.output_collection_buf.data[pv.output_collection_buf.read_idx + 1]
        taken == [pv EXCEPT
                    !.output_collection_buf =
                        advance_idx([@ EXCEPT !.data[pv.output_collection_buf.read_idx + 1] = 0],
                                    "read_idx"),
                    !.input_collection_buf =
                        advance_idx([@ EXCEPT !.data[pv.input_collection_buf.write_idx + 1] = sample],
                                    "write_idx"),
                    !.accumulated_sample_count = @ + 1]
        outcome(p) ==
            IF p.accumulated_sample_count = p.vocoder_context.frame_size
            THEN [framed |-> TRUE, before |-> p, after |-> process_frame(p), result |-> result]
            ELSE [framed |-> FALSE, before |-> p, after |-> [pv |-> p, frame |-> <<>>],
                  result |-> result]
    IN  outcome(taken)

----------------------------------------------------------------------------
(* A phase vocoder fed sample by sample: VocoderSpec *)

\* most samples fed to the vocoder in one behaviour
MaxVocoderSamples == 9

\* (frame_size, hop_size) of the vocoders built: the overlap of the shipped
\* units (frame 4 hops), half overlap, and a ring of 8 slots that wraps
FrameShapes == { <<4, 1>>, <<4, 2>>, <<2, 1>> }

\* the constructors of vocoder_effects: the window and the hosted effect of
\* Vocoder/Bypass and of PitchShifter/Ocean
vocoder_unit(effect_name, frame_size, hop_size) ==
    IF effect_name = "PitchShifter/Ocean"
    THEN phase_vocoder_new(frame_size, hop_size, "Hann", freq_processor_new("Ocean"))
    ELSE phase_vocoder_new(frame_size, hop_size, "Hamming", freq_processor_new("Bypass"))

VocoderInit ==
    /\ audio_config = [sample_rate |-> 2, max_block_size |-> MaxBlockSize]
    /\ factory_exts = loaded_set
    /\ parsed_config = [buffers |-> <<>>, effects |-> <<>>, connections |-> <<>>]
    /\ overflow_checks = TRUE
    /\ create_result = not_created
    /\ NoEngineState
    /\ in_hist = <<>>
    /\ out_hist = <<>>
    /\ session_info = None
    /\ \E effect_name \in {"Vocoder/Bypass", "PitchShifter/Ocean"} :
       \E shape \in FrameShapes :
          solo = Some(vocoder_unit(effect_name, shape[1], shape[2]))
    /\ solo_trace = <<>>

\* the calls a frame makes to the hosted effect, with the vocoder as it was
\* when the frame began
frame_calls(before, frame, count) ==
    << [call |-> "execute", self |-> before.freq_processor, frame |-> frame,
        received |-> count,
        read_idx |-> before.output_collection_buf.read_idx,
        write_idx |-> before.output_collection_buf.write_idx],
       [call |-> "post_process", self |-> before.freq_processor, frame |-> frame,
        received |-> count,
        read_idx |-> before.output_collection_buf.read_idx,
        write_idx |-> before.output_collection_buf.write_idx] >>

\* one turn of the loop of PhaseVocoder::execute: one sample in, one out
VocoderExecuteOne(sample) ==
    /\ solo.some
    /\ Len(in_hist) < MaxVocoderSamples
    /\ \E r \in {execute_one(solo.val, sample)} :
          /\ solo' = Some(r.after.pv)
          /\ out_hist' = Append(out_hist, r.result)
          /\ solo_trace' = IF r.framed
                           THEN solo_trace \o frame_calls(r.before, r.after.frame,
                                                          Len(in_hist) + 1)
                           ELSE solo_trace
    /\ in_hist' = Append(in_hist, sample)
    /\ UNCHANGED <<session_info, buildVars, engineVars, threadVars>>

VocoderNext == \E sample \in {ONE, -(ONE \div 2)} : VocoderExecuteOne(sample)

VocoderSpec == VocoderInit /\ [][VocoderNext]_vars

----------------------------------------------------------------------------
(* C23: post_initialize of the hosted frequency-domain effect *)

\* the calls of the trace that are post_initialize
post_initialize_calls == {k \in DOMAIN solo_trace : solo_trace[k].call = "post_initialize"}

\* C23: before the hosted effect's first execute or post_process, the
\* vocoder has called its post_initialize exactly once, with the hop size,
\* frame size and analysis window of the vocoder; so the hosted effect is in
\* its post-initialized state at the first frame (the Ocean pitch shifter
\* has its per-hop state).
C23_PostInitializeBeforeFirstFrame ==
    (solo.some /\ solo_trace # <<>>) =>
        /\ Cardinality(post_initialize_calls) = 1
        /\ solo_trace[1].call = "post_initialize"
        /\ solo_trace[1].vocoder_context = solo.val.vocoder_context
        /\ \A k \in DOMAIN solo_trace :
              (solo_trace[k].call = "execute"
               /\ \A j \in 1..(k - 1) : solo_trace[j].call # "execute")
              => solo_trace[k].self =
                    post_initialize(freq_processor_new(solo.val.freq_processor.kind),
                                    solo.val.vocoder_context)

----------------------------------------------------------------------------
(* C26: the framing of PhaseVocoder::execute_one *)

\* the frames processed so far, in order: the execute calls of the trace
frames_processed ==
    [k \in 1..(Len(solo_trace) \div 2) |-> solo_trace[2 * k - 1]]

\* the number of frames due after n samples: one at F, F + H, F + 2H, ...
frames_due(n, F, H) == IF n < F THEN 0 ELSE (n - F) \div H + 1

\* C26: with frame size F and hop size H, a frame is processed exactly when
\* the number of samples received is F, F + H, F + 2H, ...; each frame is the
\* F most recent input samples in order; when a frame is processed the write
\* cursor of the output ring equals its read cursor; the accumulated sample
\* count stays within [0, F] and the four ring cursors within [0, 4F).
C26_Framing ==
    solo.some =>
        LET F == solo.val.vocoder_context.frame_size
            H == solo.val.vocoder_context.hop_size
        IN  /\ Len(frames_processed) = frames_due(Len(in_hist), F, H)
            /\ \A k \in DOMAIN frames_processed :
                  /\ frames_processed[k].call = "execute"
                  /\ frames_processed[k].received = F + (k - 1) * H
                  /\ frames_processed[k].frame =
                        SubSeq(in_hist, (k - 1) * H + 1, (k - 1) * H + F)
                  /\ frames_processed[k].write_idx = frames_processed[k].read_idx
            /\ solo.val.accumulated_sample_count \in 0..F
            /\ solo.val.input_collection_buf.read_idx \in 0..(4 * F - 1)
            /\ solo.val.input_collection_buf.write_idx \in 0..(4 * F - 1)
            /\ solo.val.output_collection_buf.read_idx \in 0..(4 * F - 1)
            /\ solo.val.output_collection_buf.write_idx \in 0..(4 * F - 1)

\* a vocoder of frame size 2 has processed eight frames, the last of them
\* after every cursor of its rings of 8 slots wrapped
C26_Witness ==
    /\ solo.some
    /\ solo.val.vocoder_context.frame_size = 2
    /\ Len(frames_processed) = 8
    /\ solo.val.input_collection_buf.write_idx = 1
    /\ solo.val.output_collection_buf.read_idx = 1

----------------------------------------------------------------------------
(* C24: the output of a vocoder-hosted bypass *)

\* the frames that reach the output sample of index t (from 0) when the
\* first frame is emitted from index latency on
frames_over(t, latency, F, H) ==
    {m \in 0..t : t - latency - m * H >= 0 /\ t - latency - m * H < F}

\* the overlap-add at output index t of the windowed input, each frame
\* multiplied by gain and scaled by the inverse gain correction
overlap_added(t, latency, gain) ==
    LET F == solo.val.vocoder_context.frame_size
        H == solo.val.vocoder_context.hop_size
        w == solo.val.vocoder_context.analysis_window
        term(m) == fmul(gain * fmul(in_hist[t - latency + 1], w[t - latency - m * H + 1]),
                        solo.val.inv_gain_correction)
        frames == frames_over(t, latency, F, H)
    IN  SumUpTo([k \in 1..(t + 1) |-> IF (k - 1) \in frames THEN term(k - 1) ELSE 0], t + 1)

\* C24 (as stated): a Vocoder/Bypass of frame size F and hop size H emits
\* exactly 0 for its first F - H samples, the first sample that depends on
\* the input comes right after them, and from then on each output sample is
\* the overlap-add of the windowed input scaled by inv_gain.
C24_SilenceAsStated ==
    (solo.some /\ solo.val.freq_processor.kind = "Bypass") =>
        LET F == solo.val.vocoder_context.frame_size
            H == solo.val.vocoder_context.hop_size
        IN  \A t \in 0..(Len(out_hist) - 1) :
               /\ t < F - H => out_hist[t + 1] = 0
               /\ t = F - H => out_hist[t + 1] # 0
               /\ t >= F - H => out_hist[t + 1] = overlap_added(t, F - H, 1)

\* C24 (amended): a Vocoder/Bypass of frame size F and hop size H emits
\* exactly 0 for its first F samples; the sample after them is the first
\* that depends on the input (the first input sample times the first window
\* value, times F from the unnormalised inverse transform, scaled by
\* inv_gain); from then on each output sample is the overlap-add, over the
\* frames that cover it, of F times the windowed input scaled by inv_gain.
C24_SilenceAmended ==
    (solo.some /\ solo.val.freq_processor.kind = "Bypass") =>
        LET F == solo.val.vocoder_context.frame_size
        IN  \A t \in 0..(Len(out_hist) - 1) :
               /\ t < F => out_hist[t + 1] = 0
               /\ t = F => /\ out_hist[t + 1] # 0
                           /\ out_hist[t + 1] =
                                 fmul(F * fmul(in_hist[1],
                                               solo.val.vocoder_context.analysis_window[1]),
                                      solo.val.inv_gain_correction)
               /\ t >= F => out_hist[t + 1] = overlap_added(t, F, F)

\* a Vocoder/Bypass of frame size 4 and hop size 1 has emitted its silence
\* and five samples, the last of them the sum of four overlapping frames
C24_Witness ==
    /\ solo.some
    /\ solo.val.freq_processor.kind = "Bypass"
    /\ solo.val.vocoder_context.frame_size = 4
    /\ solo.val.vocoder_context.hop_size = 1
    /\ Len(out_hist) = 9
    /\ out_hist[5] # 0
    /\ Cardinality(frames_over(7, 4, 4, 1)) = 4

----------------------------------------------------------------------------
(* The modulated delays: utils/lfo.rs, effects/modulation/modulated_delay.rs *)

\* PARAM_MOD_RATE_HZ, PARAM_DEPTH_PCT and PARAM_FEEDBACK_PCT of
\* modulated_delay.rs
PARAM_MOD_RATE_HZ == 0
PARAM_DEPTH_PCT == 1
MOD_PARAM_FEEDBACK_PCT == 2

\* LowFrequencyOscillator::new; the sample rate is in Hz, the rest in
\* thousandths
lfo_new(waveform, oscillation_freq, sample_rate) ==
    [modulo_counter |-> 0, modulo_inc |-> oscillation_freq \div sample_rate,
     oscillation_freq |-> oscillation_freq, sample_rate |-> sample_rate,
     waveform |-> waveform]

\* LowFrequencyOscillator::change_oscillation_freq
change_oscillation_freq(lfo, new_freq) ==
    [lfo EXCEPT !.oscillation_freq = new_freq,
                !.modulo_inc = new_freq \div lfo.sample_rate]

\* LowFrequencyOscillator::oscillate
oscillate(lfo) ==
    [lfo EXCEPT !.modulo_counter = IF @ + lfo.modulo_inc >= ONE
                                   THEN @ + lfo.modulo_inc - ONE
                                   ELSE @ + lfo.modulo_inc]

\* LowFrequencyOscillator::current_sample: triangle_wave, sawtooth_wave and
\* sine_wave (the parabolic sine, with TWO_PI, PI, B, C and P in thousandths)
current_sample(lfo) ==
    LET abs(x) == IF x < 0 THEN -x ELSE x
        shaped(y) == fmul(225, fmul(y, abs(y)) - y) + y
        parabolic_sine(phase) ==
            shaped(fmul(1273, phase) + fmul(fmul(-405, phase), abs(phase)))
    IN  IF lfo.waveform = "Triangle" THEN 2 * abs(2 * lfo.modulo_counter - ONE) - ONE
        ELSE IF lfo.waveform = "Sawtooth" THEN 2 * lfo.modulo_counter - ONE
        ELSE parabolic_sine(-(fmul(lfo.modulo_counter, 6283) - 3142))

\* lfo::bipolar_to_unipolar
bipolar_to_unipolar(v) == (v + ONE) \div 2

\* mathutils::bipolar_lerp
bipolar_lerp(x, y, t) == fmul(t, (y - x) \div 2) + (x + (y - x) \div 2)

\* mathutils::db_to_linear at the three levels the derived parameters hold:
\* 0 dB, -3 dB and -96 dB
db_to_linear(db) == IF db = 0 THEN ONE ELSE IF db = -3000 THEN 708 ELSE 0

\* flanger_params, chorus_params, vibrato_params and white_chorus_params
derived_params_of(effect_name, effect_params) ==
    IF effect_name = "Modulation/Flanger"
    THEN [min_delay |-> 100, max_delay_depth |-> 7000, dryness_db |-> -3000,
          wetness_db |-> -3000,
          actual_feedback_pct |-> as_flt(effect_params[MOD_PARAM_FEEDBACK_PCT + 1]),
          actual_effect_type |-> "Flanger"]
    ELSE IF effect_name = "Modulation/Vibrato"
    THEN [min_delay |-> 0, max_delay_depth |-> 7000, dryness_db |-> -96000,
          wetness_db |-> 0, actual_feedback_pct |-> 0, actual_effect_type |-> "Vibrato"]
    ELSE IF effect_name = "Modulation/Chorus"
    THEN [min_delay |-> 10000, max_delay_depth |-> 30000, dryness_db |-> 0,
          wetness_db |-> -3000, actual_feedback_pct |-> 0, actual_effect_type |-> "Chorus"]
    ELSE [min_delay |-> 7000, max_delay_depth |-> 30000, dryness_db |-> 0,
          wetness_db |-> -3000, actual_feedback_pct |-> -700,
          actual_effect_type |-> "WhiteChorus"]

\* ModulatedDelay::new_flanger, new_chorus, new_vibrato and new_white_chorus
modulated_delay_new(effect_name, ac) ==
    LET build(params) ==
            [effect_name |-> effect_name,
             params |-> params,
             derived_params |-> derived_params_of(effect_name, params),
             delay_buf |-> delay_buffer_with_sample_rate(ac.sample_rate),
             lfo |-> lfo_new(IF effect_name = "Modulation/Vibrato" THEN "Sine"
                             ELSE "Triangle",
                             as_flt(params[PARAM_MOD_RATE_HZ + 1]), ac.sample_rate)]
    IN  build(<< [tag |-> "F", v |-> 200], [tag |-> "F", v |-> 500],
                 [tag |-> "F", v |-> 500] >>)

\* AudioEffect::set_effect_parameter of ModulatedDelay: the value is stored
modulated_delay_set_effect_parameter(unit, param_idx, param_value) ==
    [unit EXCEPT !.params[param_idx + 1] = param_value]

\* one turn of the loop of ModulatedDelay::execute on the input sample xn:
\* the unit after it, the output sample, and the modulation rate, depth and
\* feedback the turn used
modulated_delay_execute_sample(unit, xn) ==
    LET depth == as_flt(unit.params[PARAM_DEPTH_PCT + 1])
        delay_min_ms == unit.derived_params.min_delay
        delay_max_ms == unit.derived_params.min_delay + unit.derived_params.max_delay_depth
        feedback == unit.derived_params.actual_feedback_pct
        output(delay_ref, yn) ==
            [panic |-> yn.panic,
             unit |-> [unit EXCEPT
                         !.lfo = oscillate(@),
                         !.delay_buf = write_sample(delay_ref, xn + fmul(feedback, yn.value))],
             on |-> fmul(db_to_linear(unit.derived_params.dryness_db), xn)
                    + fmul(db_to_linear(unit.derived_params.wetness_db), yn.value),
             used |-> [call |-> "execute", modulo_inc |-> unit.lfo.modulo_inc,
                       depth |-> depth, feedback |-> feedback]]
        delayed(delay_ref) == output(delay_ref, read_delayed_sample(delay_ref))
        modulated(real_delay_ms) ==
            delayed(set_delay_time_ms(unit.delay_buf, real_delay_ms, TRUE))
    IN  IF unit.derived_params.actual_effect_type = "Flanger"
        THEN modulated(lerp(delay_min_ms, delay_max_ms,
                            bipolar_to_unipolar(fmul(depth, current_sample(unit.lfo)))))
        ELSE modulated(bipolar_lerp(delay_min_ms, delay_max_ms,
                                    fmul(depth, current_sample(unit.lfo))))

----------------------------------------------------------------------------
(* A modulated delay under parameter changes: ModulationSpec *)

ModulationInit ==
    /\ audio_config = [sample_rate |-> 2, max_block_size |-> MaxBlockSize]
    /\ factory_exts = loaded_set
    /\ parsed_config = [buffers |-> <<>>, effects |-> <<>>, connections |-> <<>>]
    /\ overflow_checks = TRUE
    /\ create_result = not_created
    /\ NoEngineState
    /\ in_hist = <<>>
    /\ out_hist = <<>>
    /\ session_info = None
    /\ \E effect_name \in {"Modulation/Flanger", "Modulation/Chorus",
                           "Modulation/Vibrato", "Modulation/WhiteChorus"} :
          solo = Some(modulated_delay_new(effect_name, audio_config))
    /\ solo_trace = <<>>

\* the host sets one parameter of the modulated delay
ModulationSetEffectParameter(param_idx, param_value) ==
    /\ solo.some /\ ~panicked
    /\ Len(solo_trace) < MaxCalls
    /\ solo' = Some(modulated_delay_set_effect_parameter(solo.val, param_idx, param_value))
    /\ solo_trace' = Append(solo_trace, [call |-> "set_effect_parameter",
                                         param_idx |-> param_idx, value |-> param_value])
    /\ UNCHANGED <<streamVars, session_info, buildVars, engineVars, threadVars>>

\* the modulated delay processes one sample
ModulationExecuteSample(xn) ==
    /\ solo.some /\ ~panicked
    /\ Len(solo_trace) < MaxCalls
    /\ \E r \in {modulated_delay_execute_sample(solo.val, xn)} :
          /\ solo' = Some(r.unit)
          /\ panicked' = r.panic
          /\ out_hist' = Append(out_hist, r.on)
          /\ solo_trace' = Append(solo_trace, r.used)
    /\ in_hist' = Append(in_hist, xn)
    /\ UNCHANGED <<session_info, buildVars, engineVars, host_in, host_out,
                   in_frolic, conn_i, num_samples, exec_log, frolic_returned>>

\* the values the host sets: 0.0, 0.4 and 0.9
ModulationValues == { [tag |-> "F", v |-> x] : x \in {0, 400, 900} }

ModulationNext ==
    \/ \E param_idx \in {PARAM_MOD_RATE_HZ, PARAM_DEPTH_PCT, MOD_PARAM_FEEDBACK_PCT} :
       \E param_value \in ModulationValues :
          ModulationSetEffectParameter(param_idx, param_value)
    \/ \E xn \in {ONE, -(ONE \div 2)} : ModulationExecuteSample(xn)

ModulationSpec == ModulationInit /\ [][ModulationNext]_vars

----------------------------------------------------------------------------
(* C28: a parameter set on a modulated delay and the next execute *)

\* the calls of the trace before its k-th
calls_before(k) == SubSeq(solo_trace, 1, k - 1)

\* C28: set_effect_parameter changes the state the next execute uses: on
\* the modulated delays every processed sample advances the LFO by the
\* phase increment v / sample_rate of the most recently set mod_rate_hz v
\* and uses the most recently set depth_pct, and on the flanger it applies
\* the most recently set feedback_pct as feedback.
C28_ParametersReachExecute ==
    solo.some =>
        \A k \in DOMAIN solo_trace :
            solo_trace[k].call = "execute" =>
               /\ solo_trace[k].modulo_inc =
                     change_oscillation_freq(
                         solo.val.lfo,
                         most_recent(calls_before(k), "set_effect_parameter",
                                     PARAM_MOD_RATE_HZ, 200)).modulo_inc
               /\ solo_trace[k].depth =
                     most_recent(calls_before(k), "set_effect_parameter",
                                 PARAM_DEPTH_PCT, 500)
               /\ solo.val.effect_name = "Modulation/Flanger" =>
                     solo_trace[k].feedback =
                        most_recent(calls_before(k), "set_effect_parameter",
                                    MOD_PARAM_FEEDBACK_PCT, 500)

----------------------------------------------------------------------------
(* Bindings across a reconfiguration: RebindSpec *)

\* an engine built on the identity board or on the chain of two
RebindInit ==
    \E board \in {IdentityBoard, ChainBoard} :
       Constructed([sample_rate |-> 2, max_block_size |-> MaxBlockSize], board)

\* Otters::update_audio_config takes the engine by &mut: between blocks
UpdateBetweenBlocks(new_audio_config) ==
    /\ ~in_frolic
    /\ UpdateAudioConfig(new_audio_config)

RebindNext ==
    \/ \E k \in BindSlots, ptr \in HostPtrs : BindInput(k, ptr)
    \/ \E k \in BindSlots, ptr \in HostPtrs : BindOutput(k, ptr)
    \/ \E new_audio_config \in NewAudioConfigs : UpdateBetweenBlocks(new_audio_config)
    \/ \E n \in 1..audio_config.max_block_size, block \in InputBlocks : FrolicCall(n, block)
    \/ FrolicStep
    \/ FrolicReturn

RebindSpec == RebindInit /\ [][RebindNext]_vars

----------------------------------------------------------------------------
(* C29: bindings stay installed until the same slot is bound again *)

\* C29: a pointer installed with bind_input or bind_output stays installed
\* until a later bind of the same slot replaces it: a step changes the
\* pointer of a source slot only if it is a bind_input of that slot, and
\* the pointer of a sink slot only if it is a bind_output of that slot; in
\* particular update_audio_config leaves every external binding as it was.
C29_BindingsStayInstalled ==
    [][ /\ Len(external_ins') = Len(external_ins)
        /\ Len(external_outs') = Len(external_outs)
        /\ \A slot \in DOMAIN external_ins :
              external_ins'[slot] # external_ins[slot] =>
                 \E ptr \in HostPtrs : BindInput(slot - 1, ptr)
        /\ \A slot \in DOMAIN external_outs :
              external_outs'[slot] # external_outs[slot] =>
                 \E ptr \in HostPtrs : BindOutput(slot - 1, ptr) ]_vars

----------------------------------------------------------------------------
(* Blocks on boards whose connections share buffers: BorrowSpec *)

\* two declared buffer lists: internal names between two spellings of the
\* source slot 1, and internal names with the bare source prefix among them
BorrowBufLists ==
    { << <<"a">>, Src(<<"1">>), <<"b">>, Src(<<"0", "1">>), Snk(<<"0">>) >>,
      << Src(<<"0">>), <<"a">>, Snk(<<"0">>), <<"b">>, Src(<<>>) >> }

\* the lists of at most two of the names
TargetLists(names) ==
    {<<>>} \cup { <<x>> : x \in names } \cup { <<x, y>> : x \in names, y \in names }

\* one drawn connection on a Bypass/Mono that is enabled or not, alone or
\* followed by an enabled one from buffer a to sink 0
BorrowFamily(cfg) ==
    \E b \in BorrowBufLists : \E enabled \in BOOLEAN :
    \E reads \in TargetLists({ b[k] : k \in DOMAIN b }) :
    \E writes \in TargetLists({ b[k] : k \in DOMAIN b }) :
    \E followed \in BOOLEAN :
        cfg = [buffers |-> b,
               effects |-> << BypassDecl("e1", enabled), BypassDecl("e2", TRUE) >>,
               connections |->
                  << [effect |-> "e1", reads |-> reads, writes |-> writes] >>
                  \o (IF followed
                      THEN << [effect |-> "e2", reads |-> << <<"a">> >>,
                               writes |-> << Snk(<<"0">>) >>] >>
                      ELSE <<>>)]

\* the engines construction accepts on the family
BorrowInit ==
    /\ BorrowFamily(parsed_config)
    /\ Constructed([sample_rate |-> 2, max_block_size |-> MaxBlockSize], parsed_config)

BorrowNext ==
    \/ \E n \in 1..audio_config.max_block_size, block \in InputBlocks : FrolicCall(n, block)
    \/ FrolicStep
    \/ FrolicReturn

BorrowSpec == BorrowInit /\ [][BorrowNext]_vars

----------------------------------------------------------------------------
(* C30: the RefCell borrows of the internal buffers never fail *)

\* no value occurs twice in the sequence
duplicate_free(s) == \A i, j \in DOMAIN s : i # j => s[i] # s[j]

\* the indices of internal buffers among resolved indices
internal_idxs(idxs) == SelectSeq(idxs, LAMBDA idx : idx < FIRST_INPUT_IDX)

\* the index map of the buffer pass on the board the engine was built from
declared_buf_name_to_idx ==
    create_mem_buffers(create_construction_intermediate, parsed_config.buffers,
                       audio_config.max_block_size, overflow_checks).helper.buf_name_to_idx

\* distinct internal names have distinct indices
internal_names_distinct ==
    \A m \in {declared_buf_name_to_idx} :
    \A n1, n2 \in DOMAIN m :
        (n1 # n2 /\ m[n1] < FIRST_INPUT_IDX /\ m[n2] < FIRST_INPUT_IDX)
            => m[n1] # m[n2]

\* C30, as stated: during frolic on a constructed engine no borrow of an
\* internal buffer fails: within every connection the resolved read and
\* write indices are disjoint and duplicate-free, and distinct internal
\* names have distinct indices.
C30_BorrowsAsStated ==
    /\ ~panicked
    /\ internal_names_distinct
    /\ \A c \in DOMAIN connections :
          duplicate_free(connections[c].inputs_idxs \o connections[c].output_idxs)

\* C30, amended: during frolic on a constructed engine no borrow of an
\* internal buffer fails: within every connection the resolved indices of
\* internal buffers, read and written, are disjoint and duplicate-free
\* (two spellings of one external slot may both be named), and distinct
\* internal names have distinct indices.
C30_BorrowsAmended ==
    /\ ~panicked
    /\ internal_names_distinct
    /\ \A c \in DOMAIN connections :
          duplicate_free(internal_idxs(connections[c].inputs_idxs
                                       \o connections[c].output_idxs))

\* a block has run to its end on a board of two connections, the first
\* reading one internal buffer and writing another that the second reads
C30_Witness ==
    /\ frolic_returned /\ ~panicked
    /\ Len(connections) = 2
    /\ Len(exec_log) = 2
    /\ Len(connections[1].inputs_idxs) >= 1
    /\ Len(connections[1].output_idxs) >= 1
    /\ connections[1].inputs_idxs[1] < FIRST_INPUT_IDX
    /\ connections[1].output_idxs[1] < FIRST_INPUT_IDX
    /\ connections[1].output_idxs[1] = connections[2].inputs_idxs[1]

============================================================================
